---- MODULE Spec2Model ----
(***************************************************************************)
(* A model of webclone.js: the crawl queue, the Record Store, the worker   *)
(* pool, the rate-limit cooldown and the shutdown coordinator.             *)
(*                                                                         *)
(* A URL string is modelled by what the WHATWG URL parser makes of it:     *)
(*   parses   - new URL(str) succeeds (an absolute URL)                    *)
(*   protocol - "http:", "https:", "mailto:" ...                           *)
(*   host     - the hostname as its sequence of labels                     *)
(*   path     - the pathname split at "/" after the leading slash, so      *)
(*              "/" is <<"">>, "/x" is <<"x">>, "/x/" is <<"x", "">>       *)
(*   hash     - the string carries a "#fragment"                           *)
(*   ws       - the string carries leading/trailing whitespace             *)
(* The empty string is EmptyUrl.                                           *)
(***************************************************************************)
EXTENDS Integers, Sequences, FiniteSets, Bags, TLC

\* ------------------------------------------------------------------ bounds
\* Number of enqueue calls a run of the enqueue specification makes after seeding.
MaxCalls == 2

\* Number of enqueue calls a run of the queue-order specification makes.
MaxQueueCalls == 3

\* Number of clock ticks (of one second) and of cooldown calls in a run of the
\* cooldown specification.
MaxTicks == 3
MaxCoolCalls == 3
\* Largest magnitude, in seconds, of a Retry-After value a server answers.
MaxRetryAfter == 2

\* Largest --concurrency of the crawl specifications.
MaxWorkers == 2
\* Number of failures (navigation errors, retryable responses, lost browser
\* connections) the environment injects in a run of the crawl specification.
MaxFailures == 1

\* Number of predictRecord/finalizeRecord calls in a run of the Record Store
\* specification.
MaxRecordCalls == 3

\* Number of Record Store calls before the relativizer is asked.
MaxRelCalls == 2

\* Number of fallback streams of evicted assets in a run.
MaxEvictions == 1

\* Number of video downloads running when the shutdown specification starts.
MaxVideos == 2
\* How far below zero the shutdown's forced decrement is followed.
MaxUnderflow == 1

\* The yt-dlp runs that fail, over all the videos found on pages.
MaxDownloadFailures == 3

\* ------------------------------------------------------- program constants
\* The start-URL score: enqueue(startUrl, 0, Infinity).
Infinity == 1000000
\* The score of a job that carries no score field (a re-queued job).
Undefined == -1
\* process.exitCode while the process runs.
Running == -1
\* enqueue's default score.
DefaultScore == 5
\* INTERNAL_CONSTANTS.maxRetries
maxRetries == 3

\* ------------------------------------------------------------- URL strings
EmptyUrl ==
  [parses |-> FALSE, protocol |-> "", host |-> <<>>, path |-> <<>>,
   hash |-> FALSE, ws |-> FALSE]

Url(protocol, host, path) ==
  [parses |-> TRUE, protocol |-> protocol, host |-> host, path |-> path,
   hash |-> FALSE, ws |-> FALSE]

HostA == <<"a", "example", "com">>
HostB == <<"b", "a", "example", "com">>
HostE == <<"example", "com">>
HostO == <<"other", "org">>

\* A segment that is a percent-encoded spelling: decodeURIComponent output.
DecodeSeg(s) == IF s = "%78" THEN "x" ELSE s

\* Segments on which decodeURIComponent throws URIError (a truncated escape).
MalformedEscapes == {"%E0%A4%A"}

\* path.extname of one path segment.
ExtName(s) ==
  CASE s = "style.css" -> ".css"
    [] s = "logo.png"  -> ".png"
    [] s = "page.php"  -> ".php"
    [] s = "style.html" -> ".html"
    [] s = "logo.html" -> ".html"
    [] s = "page.html" -> ".html"
    [] s = "index.html" -> ".html"
    [] OTHER -> ""

\* path.basename(s, path.extname(s)) + ".html"
HtmlName(s) ==
  CASE s = "style.css" -> "style.html"
    [] s = "logo.png"  -> "logo.html"
    [] s = "page.php"  -> "page.html"
    [] OTHER -> s

HTML_LIKE_EXTENSIONS == {".html", ".htm", ".php", ".asp", ".aspx", ".jsp", ".cfm", ".xhtml"}

RECURSIVE FilterBoolean(_)
\* segs.filter(Boolean): the non-empty segments, in order.
FilterBoolean(p) ==
  IF p = <<>> THEN <<>>
  ELSE IF Head(p) = "" THEN FilterBoolean(Tail(p))
       ELSE <<Head(p)>> \o FilterBoolean(Tail(p))

LastOr(p, d) == IF p = <<>> THEN d ELSE p[Len(p)]

\* path.extname(new URL(u).pathname).toLowerCase(): trailing slashes are ignored.
PathExt(u) == ExtName(LastOr(FilterBoolean(u.path), ""))

RECURSIVE DecodePath(_)
\* decodeURIComponent(url.pathname), segment by segment.
DecodePath(p) ==
  IF p = <<>> THEN <<>> ELSE <<DecodeSeg(Head(p))>> \o DecodePath(Tail(p))

\* normalizeUrl(urlString): '' for an empty or non-HTTP(S) string; the trimmed
\* string itself when new URL() or decodeURIComponent throws (the catch branch);
\* otherwise the URL without fragment, with the pathname decoded and ONE
\* trailing slash removed (except for the root path).
normalizeUrl(u) ==
  IF u = EmptyUrl THEN EmptyUrl
  ELSE IF ~u.parses THEN [u EXCEPT !.ws = FALSE]
  ELSE IF u.protocol \notin {"http:", "https:"} THEN EmptyUrl
  ELSE IF \E i \in 1..Len(u.path) : u.path[i] \in MalformedEscapes
       THEN [u EXCEPT !.ws = FALSE]
  ELSE LET dec == DecodePath(u.path)
           cut == IF dec # <<"">> /\ dec[Len(dec)] = ""
                  THEN SubSeq(dec, 1, Len(dec) - 1) ELSE dec
       IN [u EXCEPT !.ws = FALSE, !.hash = FALSE, !.path = cut]

\* getBaseDomain(hostname): the last two labels (the hostname itself when it
\* has at most two).
getBaseDomain(hostname) ==
  IF Len(hostname) <= 2 THEN hostname
  ELSE SubSeq(hostname, Len(hostname) - 1, Len(hostname))

\* urlToFilePath(CONFIG.outDir, url, contentType, isPageHtml) as predictRecord
\* calls it (no query string, no forced extension, path within maxPathLength):
\* outDir/<host>/<segments>, a page forced to an .html leaf.
urlToFilePath(u, isPageHtml) ==
  LET segments == FilterBoolean(u.path)
      last == LastOr(segments, "")
      pathHasExt == ExtName(last) # ""
  IN [host |-> u.host,
      segs |-> IF isPageHtml
               THEN IF ~pathHasExt THEN segments \o <<"index.html">>
                    ELSE SubSeq(segments, 1, Len(segments) - 1) \o <<HtmlName(last)>>
               ELSE segments]

\* ------------------------------------------------------------------- state
VARIABLES
  crawlScope,          \* CONFIG.crawlScope
  maxPages,            \* CONFIG.maxPages
  maxDepth,            \* CONFIG.maxDepth
  startUrls,           \* CONFIG.startUrls (positional arguments, in order)
  concurrency,         \* CONFIG.concurrency
  maxConsecutiveFailures, \* CONFIG.maxConsecutiveFailures
  mainPc,              \* where main() stands
  initialHosts,        \* CRAWL_STATE.initialHosts
  initialBaseDomains,  \* CRAWL_STATE.initialBaseDomains
  queue,               \* CRAWL_STATE.queue (a sequence; pop() takes the last)
  enqueued,            \* CRAWL_STATE.enqueued
  visited,             \* CRAWL_STATE.visited
  records,             \* CRAWL_STATE.records: canonical URL -> Record
  wpc,                 \* worker -> where its loop stands
  wjob,                \* worker -> the crawlJob it popped
  werr,                \* worker -> the error crawlPage is about to throw
  pageCrawlError,      \* worker -> crawlPage's pageCrawlError is set
  wsave,               \* worker -> contentToSave: file path -> entry
  files,               \* the archive directory: paths of the files on disk
  created,             \* bag of the paths exclusive writes created (history)
  pagesCrawled,        \* CRAWL_STATE.stats.pagesCrawled
  consecutiveFailures, \* CRAWL_STATE.stats.consecutiveFailures
  activeWorkers,       \* CRAWL_STATE.stats.activeWorkers
  navigated,           \* jobs crawlPage was called for (history)
  nfail,               \* failures injected so far (history, bounds the run)
  shuttingDown,        \* CRAWL_STATE.shuttingDown
  browserInstance,     \* CRAWL_STATE.browserInstance is set
  handlers,            \* the signals sigintHandler/sigtermHandler listen to
  monitorOn,           \* the monitor interval is set
  activeVideoDownloads,    \* CRAWL_STATE.activeVideoDownloads
  activeDownloadProcesses, \* CRAWL_STATE.activeDownloadProcesses
  video,               \* download -> state of its subprocess and promise
  exitStatus,          \* the code process.exit was called with, or Running
  sdPc,                \* caller of performShutdown -> where its call stands
  sdCode,              \* caller -> the exitCode argument of its call
  processesToKill,     \* caller -> performShutdown's processesToKill
  killIdx,             \* caller -> number of processesToKill sent SIGTERM so far
  firstCaller,         \* the first caller of performShutdown (history)
  executors,           \* the callers that passed the guard (history)
  exitedBy,            \* who ended the process (history)
  termCount,           \* download -> SIGTERMs sent to its subprocess (history)
  killCount,           \* download -> SIGKILLs sent to its subprocess (history)
  browserReleases,     \* times the browser was released (history)
  statsEmitted,        \* times the final statistics were logged (history)
  gvfScript,           \* getVideoFilePath: what yt-dlp does per output template
  gvfPc,               \* getVideoFilePath: the await it stands at, or how it ended
  gvfRuns,             \* getVideoFilePath: the templates runGetFilename ran with
  gvfResult,           \* getVideoFilePath: the value returned or the error thrown
  relArgs,             \* the relativizer's last call: source path, target URL, Record path
  relOut,              \* what that call returned
  evictedFor,          \* worker -> page URL of its fallback stream in flight, or EmptyUrl
  nevict,              \* fallback streams opened so far (history, bounds the run)
  dl,                  \* discovered video URL -> where its background task stands
  videoUrlMap,         \* CRAWL_STATE.videoUrlMap: video URL -> local path
  processedVideos,     \* CRAWL_STATE.processedVideos
  tempCookies,         \* the temporary cookie files in os.tmpdir()
  rewritten,           \* links the archived pages point to a local video file (history)
  coolDownUntil,       \* CRAWL_STATE.coolDownUntil (ms)
  now,                 \* Date.now() (ms)
  proposed,            \* every deadline a cooldown call proposed (history)
  call,                \* the last handler call and its arguments (history)
  ncalls,              \* number of calls made (history, bounds the run)
  popped               \* jobs popped since the last insertion (history)

vars ==
  <<crawlScope, maxPages, maxDepth, startUrls, concurrency, maxConsecutiveFailures,
    mainPc, initialHosts, initialBaseDomains, queue, enqueued, visited, records,
    wpc, wjob, werr, pageCrawlError, wsave, files, created, pagesCrawled,
    consecutiveFailures,
    activeWorkers, navigated, nfail, shuttingDown, browserInstance, monitorOn,
    activeVideoDownloads, activeDownloadProcesses, video, handlers, exitStatus, sdPc,
    sdCode, processesToKill, killIdx, firstCaller, executors, exitedBy, termCount,
    killCount, browserReleases, statsEmitted, gvfScript, gvfPc, gvfRuns, gvfResult,
    relArgs, relOut, evictedFor, nevict, dl, videoUrlMap, processedVideos,
    tempCookies, rewritten,
    coolDownUntil, now, proposed, call, ncalls, popped>>

\* CONFIG: fixed once the command line is parsed.
configVars ==
  <<crawlScope, maxPages, maxDepth, startUrls, concurrency, maxConsecutiveFailures>>

\* The helper functions exercised on their own, and the fallback stream of
\* an evicted asset.
helperVars ==
  <<gvfScript, gvfPc, gvfRuns, gvfResult, relArgs, relOut, evictedFor, nevict,
    dl, videoUrlMap, processedVideos, tempCookies, rewritten>>

\* The background tasks of the videos discovered on pages.
downloadVars == <<dl, videoUrlMap, processedVideos, tempCookies, rewritten>>

\* The variables of the relativizer.
relVars == <<relArgs, relOut>>

\* The variables of getVideoFilePath.
gvfVars == <<gvfScript, gvfPc, gvfRuns, gvfResult>>

\* The variables of the worker pool.
workVars ==
  <<wpc, wjob, werr, pageCrawlError, wsave, files, created, pagesCrawled,
    consecutiveFailures,
    activeWorkers, navigated, nfail>>

\* The downloads: the counter, the process set and each download's state.
procVars == <<activeVideoDownloads, activeDownloadProcesses, video>>

\* What only performShutdown and the end of the process change.
callVars ==
  <<handlers, exitStatus, sdPc, sdCode, processesToKill, killIdx, firstCaller,
    executors, exitedBy, termCount, killCount, browserReleases, statsEmitted>>

\* The variables of the shutdown coordinator.
shutVars == <<shuttingDown, browserInstance, monitorOn, procVars, callVars>>

\* The callers of performShutdown and the downloads.
Callers == {"SIGINT", "SIGTERM", "rejection", "monitor", "main"}

Videos == 1..MaxVideos

\* The subprocesses of a run, in the order they are spawned: those of the
\* video start URLs, and for each video found on a page up to two
\* negotiations of the file name and two downloads, plus one per failure.
MaxProcs == MaxVideos + 4 + MaxDownloadFailures

Procs == 1..MaxProcs

\* The variables the cooldown manager owns.
coolVars == <<coolDownUntil, now, proposed>>

NoCall ==
  [op |-> "none", url |-> EmptyUrl, depth |-> 0, score |-> 0, threw |-> FALSE,
   args |-> <<>>]

\* The workers, and the worker slot that holds no job.
Workers == 1..MaxWorkers

NoJob == [url |-> EmptyUrl, depth |-> 0, retries |-> 0, score |-> Undefined]

\* -------------------------------------------------------------- the queue
\* compare's result when a score is undefined (x - undefined): the one use of
\* the result is the test ">= 0", which NaN fails.
NaN == -2000000

\* compare with the depth tie-break the wrong way round.
compareDepthAscending(a, b) ==
  IF a.score # b.score
  THEN IF a.score = Undefined \/ b.score = Undefined THEN NaN
       ELSE a.score - b.score
  ELSE a.depth - b.depth

\* getInsertIndex's comparator: ascending score, then descending depth.
compare(a, b) ==
  IF a.score # b.score
  THEN IF a.score = Undefined \/ b.score = Undefined THEN NaN
       ELSE a.score - b.score
  ELSE b.depth - a.depth

RECURSIVE BinarySearch(_, _, _, _)
\* The while loop of getInsertIndex on 0-based indices low, high.
BinarySearch(q, job, low, high) ==
  IF low < high
  THEN LET mid == (low + high) \div 2
       IN IF compare(job, q[mid + 1]) >= 0
          THEN BinarySearch(q, job, mid + 1, high)
          ELSE BinarySearch(q, job, low, mid)
  ELSE low

\* getInsertIndex(job): the 0-based index at which job is spliced in.
getInsertIndex(q, job) == BinarySearch(q, job, 0, Len(q))

\* queue.splice(index, 0, job)
Splice(q, index, job) ==
  SubSeq(q, 1, index) \o <<job>> \o SubSeq(q, index + 1, Len(q))

\* ------------------------------------------------------- the Record Store
Has(recs, k) == k \in DOMAIN recs

Put(recs, k, r) == [x \in (DOMAIN recs) \cup {k} |-> IF x = k THEN r ELSE recs[x]]

\* predictRecord throws (new URL(normalizedUrl) on a string that is no URL).
predictThrows(recs, url) ==
  LET normalizedUrl == normalizeUrl(url)
  IN /\ normalizedUrl # EmptyUrl
     /\ ~(Has(recs, normalizedUrl) /\ ~recs[normalizedUrl].predicted)
     /\ ~normalizedUrl.parses

\* predictRecord(url, guessIsPage, foundOnUrl): the Record Store afterwards.
predictRecord(recs, url, guessIsPage, foundOnUrl) ==
  LET normalizedUrl == normalizeUrl(url)
  IN IF normalizedUrl = EmptyUrl THEN recs
     ELSE IF Has(recs, normalizedUrl) /\ ~recs[normalizedUrl].predicted THEN recs
     ELSE IF ~normalizedUrl.parses THEN recs
     ELSE LET extension == PathExt(normalizedUrl)
              looksPage == guessIsPage \/ extension \in HTML_LIKE_EXTENSIONS
                           \/ extension = ""
          IN Put(recs, normalizedUrl,
                 [filePath |-> urlToFilePath(normalizedUrl, looksPage),
                  contentType |-> IF looksPage THEN "text/html" ELSE "",
                  status |-> 0,
                  isPage |-> looksPage,
                  predicted |-> TRUE,
                  originalUrl |-> IF foundOnUrl # EmptyUrl THEN foundOnUrl
                                  ELSE normalizedUrl])

\* finalizeRecord without its guard: a finalized Record is written again.
finalizeRecordUnguarded(recs, url, filePath, contentType, status, isPage, foundOnUrl) ==
  Put(recs, url,
      [filePath |-> filePath, contentType |-> contentType, status |-> status,
       isPage |-> isPage, predicted |-> FALSE,
       originalUrl |-> IF foundOnUrl # EmptyUrl THEN foundOnUrl
                       ELSE IF Has(recs, url) THEN recs[url].originalUrl
                       ELSE url])

\* finalizeRecord(url, filePath, contentType, status, isPage, foundOnUrl)
finalizeRecord(recs, url, filePath, contentType, status, isPage, foundOnUrl) ==
  IF Has(recs, url) /\ ~recs[url].predicted THEN recs
  ELSE Put(recs, url,
           [filePath |-> filePath, contentType |-> contentType, status |-> status,
            isPage |-> isPage, predicted |-> FALSE,
            originalUrl |-> IF foundOnUrl # EmptyUrl THEN foundOnUrl
                            ELSE IF Has(recs, url) THEN recs[url].originalUrl
                            ELSE url])

\* ---------------------------------------------------------------- enqueue
\* inScope with same-domain decided on the base domain instead of the hostname.
inScopeByBaseDomain(norm) ==
  IF crawlScope = "cross-domains" THEN TRUE
  ELSE IF ~norm.parses THEN FALSE
  ELSE getBaseDomain(norm.host) \in initialBaseDomains

\* The scope check of enqueue: TRUE when the URL passes (or the scope is
\* cross-domains); a string new URL() cannot parse is rejected by the catch.
inScope(norm) ==
  IF crawlScope = "cross-domains" THEN TRUE
  ELSE IF ~norm.parses THEN FALSE
  ELSE IF crawlScope = "same-domain" THEN norm.host \in initialHosts
  ELSE getBaseDomain(norm.host) \in initialBaseDomains

\* enqueue's early return without the test of the enqueued set.
enqueueDropsIgnoringEnqueued(st, url) ==
  LET norm == normalizeUrl(url)
  IN norm = EmptyUrl \/ norm \in visited \/ ~inScope(norm)

\* enqueue returns early: nothing is touched.
enqueueDrops(st, url) ==
  LET norm == normalizeUrl(url)
  IN norm = EmptyUrl \/ norm \in st.enqueued \/ norm \in visited \/ ~inScope(norm)

\* enqueue(url, depth, score) on st = [queue, enqueued, records, threw]: the
\* three containers afterwards, threw set when predictRecord raised.
enqueue(st, url, depth, score) ==
  LET norm == normalizeUrl(url)
      job == [url |-> norm, depth |-> depth, retries |-> 0, score |-> score]
  IN IF enqueueDrops(st, url) THEN st
     ELSE [queue |-> Splice(st.queue, getInsertIndex(st.queue, job), job),
           enqueued |-> st.enqueued \cup {norm},
           records |-> predictRecord(st.records, norm, TRUE, EmptyUrl),
           threw |-> st.threw \/ predictThrows(st.records, norm)]

CrawlState == [queue |-> queue, enqueued |-> enqueued, records |-> records, threw |-> FALSE]

\* looksNavigable(url): no extension or an HTML-like one; FALSE when new URL throws.
looksNavigable(u) ==
  u.parses /\ (PathExt(u) = "" \/ PathExt(u) \in HTML_LIKE_EXTENSIONS)

\* A host the DIRECT_VIDEO_URL_PATTERNS match (youtu.be).
HostV == <<"youtu", "be">>

\* isDirectVideoUrl(urlString), with CONFIG.videos at its default "auto".
isDirectVideoUrl(u) ==
  u.parses /\ u.protocol \in {"http:", "https:"} /\ u.host = HostV

RECURSIVE SeedStartUrls(_, _)
\* main's loop over CONFIG.startUrls: a direct video URL starts a download,
\* any other one is passed to enqueue(startUrl, 0, Infinity), in order; an
\* exception of enqueue ends the loop.
SeedStartUrls(st, urls) ==
  IF urls = <<>> \/ st.threw THEN st
  ELSE IF isDirectVideoUrl(Head(urls)) THEN SeedStartUrls(st, Tail(urls))
  ELSE SeedStartUrls(enqueue(st, Head(urls), 0, Infinity), Tail(urls))

RECURSIVE videoStarts(_, _)
\* main, lines 585-604: the start URLs main calls downloadVideo for, in
\* order; processedVideos holds the URL strings as given.
videoStarts(urls, processed) ==
  IF urls = <<>> THEN <<>>
  ELSE IF isDirectVideoUrl(Head(urls)) /\ Head(urls) \notin processed
       THEN <<Head(urls)>> \o videoStarts(Tail(urls), processed \cup {Head(urls)})
  ELSE videoStarts(Tail(urls), processed)

\* The start URLs main starts a download for.
initialVideos(urls) == {videoStarts(urls, {})[i] : i \in 1..Len(videoStarts(urls, {}))}

\* ----------------------------------------------------------- raw inputs
\* Two videos that pages link to.
VideoClip == Url("https:", HostV, <<"clip">>)
VideoTalk == Url("https:", HostV, <<"talk">>)
PageVideos == {VideoClip, VideoTalk}

\* The background task of a video no page has linked to yet: pc is the
\* await it stands at or how it ended, attempt downloadVideo's loop counter,
\* runs the iterations attemptSingleDownload has started, useId the output
\* template in use, proc the yt-dlp subprocess awaited, cookie its
\* tempCookiePath, lastError what the last yt-dlp run failed with, spawns the
\* download subprocesses spawned so far (history).
NoTask ==
  [pc |-> "none", attempt |-> 0, runs |-> 0, useId |-> FALSE, proc |-> 0,
   cookie |-> -1, lastError |-> "none", spawns |-> 0]

UrlAX == Url("https:", HostA, <<"x">>)
UrlBY == Url("https:", HostB, <<"y">>)
UrlEZ == Url("https:", HostE, <<"z">>)
UrlOW == Url("https:", HostO, <<"w">>)
UrlARoot == Url("https:", HostA, <<"">>)
Relative == [EmptyUrl EXCEPT !.path = <<"y">>]

\* Spellings the queue specifications feed to enqueue: fragment, whitespace,
\* one and two trailing slashes, a percent-encoded segment, a truncated escape
\* (with a fragment), another scheme, a relative reference, the empty string.
RawPool ==
  { UrlAX, [UrlAX EXCEPT !.hash = TRUE], [UrlAX EXCEPT !.ws = TRUE],
    [UrlAX EXCEPT !.path = <<"x", "">>], [UrlAX EXCEPT !.path = <<"x", "", "">>],
    [UrlAX EXCEPT !.path = <<"%78">>],
    [UrlAX EXCEPT !.path = <<"%E0%A4%A">>, !.hash = TRUE],
    UrlBY, [UrlBY EXCEPT !.hash = TRUE], UrlEZ, UrlOW, UrlARoot,
    Url("mailto:", <<>>, <<"me">>), Relative, EmptyUrl }

StartUrlChoices ==
  { <<UrlAX>>, <<[UrlAX EXCEPT !.path = <<"x", "">>], [UrlAX EXCEPT !.hash = TRUE]>> }

Scopes == {"same-domain", "subdomains", "cross-domains"}

\* ------------------------------------------------------------- actions
\* main, lines 497-511: populate the scope anchors from the start URLs that
\* parse.
MainPopulateScope ==
  /\ mainPc = "start"
  /\ LET parsed == {i \in 1..Len(startUrls) : startUrls[i].parses}
         hosts == {startUrls[i].host : i \in parsed}
     IN /\ initialHosts' = hosts
        /\ initialBaseDomains' = {getBaseDomain(h) : h \in hosts}
  /\ mainPc' = "scoped"
  /\ UNCHANGED <<coolVars, workVars, shutVars, configVars, helperVars, queue, enqueued,
                 visited, records, call, ncalls, popped>>

\* main, lines 585-609: seed the queue with the start URLs and start the
\* downloads of the video start URLs (the i-th download's yt-dlp process is
\* spawned within the call); an exception of enqueue rejects main(), whose
\* catch handler exits the process.
MainSeed ==
  /\ mainPc = "scoped"
  /\ LET st == SeedStartUrls(CrawlState, startUrls)
         n == Cardinality(initialVideos(startUrls))
     IN /\ queue' = st.queue
        /\ enqueued' = st.enqueued
        /\ records' = st.records
        /\ mainPc' = IF st.threw THEN "exited" ELSE "seeded"
        /\ call' = [op |-> "main", url |-> EmptyUrl, depth |-> 0,
                    score |-> Infinity, threw |-> st.threw, args |-> <<>>]
        /\ IF st.threw THEN UNCHANGED procVars
           ELSE /\ activeVideoDownloads' = activeVideoDownloads + n
                /\ activeDownloadProcesses' = activeDownloadProcesses \cup (1..n)
                /\ video' = [v \in Procs |-> IF v <= n THEN "running" ELSE video[v]]
  /\ popped' = <<>>
  /\ UNCHANGED <<coolVars, workVars, configVars, helperVars, initialHosts, initialBaseDomains,
                 visited, ncalls, shuttingDown, browserInstance, monitorOn, callVars>>

\* One call enqueue(url, depth, score).
EnqueueCall(url, depth, score) ==
  /\ mainPc = "seeded"
  /\ LET st == enqueue(CrawlState, url, depth, score)
     IN /\ queue' = st.queue
        /\ enqueued' = st.enqueued
        /\ records' = st.records
        /\ call' = [op |-> "enqueue", url |-> url, depth |-> depth,
                    score |-> score, threw |-> st.threw, args |-> <<>>]
        /\ popped' = IF st.queue = queue THEN popped ELSE <<>>
  /\ ncalls' = ncalls + 1
  /\ UNCHANGED <<coolVars, workVars, shutVars, configVars, helperVars, mainPc,
                 initialHosts, initialBaseDomains, visited>>

\* The response listener's enqueue (setupResponseListener, lines 1243-1264) for
\* an ok document response seen on a page of the given depth.
ListenerEnqueue(url, depth) ==
  /\ mainPc = "seeded"
  /\ normalizeUrl(url) # EmptyUrl
  /\ LET st == enqueue(CrawlState, normalizeUrl(url), depth + 1, DefaultScore)
     IN /\ queue' = st.queue
        /\ enqueued' = st.enqueued
        /\ records' = st.records
        /\ call' = [op |-> "listener", url |-> url, depth |-> depth + 1,
                    score |-> DefaultScore, threw |-> st.threw, args |-> <<>>]
        /\ popped' = IF st.queue = queue THEN popped ELSE <<>>
  /\ ncalls' = ncalls + 1
  /\ UNCHANGED <<coolVars, workVars, shutVars, configVars, helperVars, mainPc,
                 initialHosts, initialBaseDomains, visited>>

\* crawlPage's loop body for one discovered non-video link (lines 852-889):
\* a navigable link is enqueued at depth + 1, and a Record is predicted for
\* every link; an exception of enqueue skips the prediction.
discoverLink(st, url, depth, score, pageUrl) ==
  LET isNavigable == looksNavigable(url)
      e == IF isNavigable THEN enqueue(st, url, depth + 1, score) ELSE st
  IN IF e.threw THEN e
     ELSE [e EXCEPT !.records = predictRecord(e.records, url, isNavigable, pageUrl),
                    !.threw = predictThrows(e.records, url)]

DiscoverLink(url, depth, score, pageUrl) ==
  /\ mainPc = "seeded"
  /\ url.parses /\ ~url.hash /\ ~url.ws
  /\ LET st == discoverLink(CrawlState, url, depth, score, pageUrl)
     IN /\ queue' = st.queue
        /\ enqueued' = st.enqueued
        /\ records' = st.records
        /\ call' = [op |-> "discover", url |-> url, depth |-> depth + 1,
                    score |-> score, threw |-> st.threw, args |-> <<>>]
        /\ popped' = IF st.queue = queue THEN popped ELSE <<>>
  /\ ncalls' = ncalls + 1
  /\ UNCHANGED <<coolVars, workVars, shutVars, configVars, helperVars, mainPc,
                 initialHosts, initialBaseDomains, visited>>

\* queue.pop() (worker, line 712) on its own.
Pop ==
  /\ mainPc = "seeded"
  /\ queue # <<>>
  /\ popped' = Append(popped, queue[Len(queue)])
  /\ queue' = SubSeq(queue, 1, Len(queue) - 1)
  /\ call' = [op |-> "pop", url |-> queue[Len(queue)].url,
              depth |-> queue[Len(queue)].depth,
              score |-> queue[Len(queue)].score, threw |-> FALSE, args |-> <<>>]
  /\ UNCHANGED <<coolVars, workVars, shutVars, configVars, helperVars, mainPc, initialHosts,
                 initialBaseDomains, enqueued, visited, records, ncalls>>

\* ------------------------------------------- the enqueue specification
InitState ==
  /\ mainPc = "start"
  /\ initialHosts = {}
  /\ initialBaseDomains = {}
  /\ queue = <<>>
  /\ enqueued = {}
  /\ visited = {}
  /\ records = << >>
  /\ call = NoCall
  /\ ncalls = 0
  /\ popped = <<>>
  /\ coolDownUntil = 0
  /\ now = 0
  /\ proposed = {}
  /\ wpc = [w \in Workers |-> "off"]
  /\ wjob = [w \in Workers |-> NoJob]
  /\ werr = [w \in Workers |-> "none"]
  /\ pageCrawlError = [w \in Workers |-> FALSE]
  /\ wsave = [w \in Workers |-> << >>]
  /\ files = {}
  /\ created = EmptyBag
  /\ pagesCrawled = 0
  /\ consecutiveFailures = 0
  /\ activeWorkers = 0
  /\ navigated = {}
  /\ nfail = 0
  /\ shuttingDown = FALSE
  /\ browserInstance = FALSE
  /\ handlers = {"SIGINT", "SIGTERM"}
  /\ monitorOn = FALSE
  /\ activeVideoDownloads = 0
  /\ activeDownloadProcesses = {}
  /\ video = [v \in Procs |-> "none"]
  /\ exitStatus = Running
  /\ sdPc = [c \in Callers |-> "idle"]
  /\ sdCode = [c \in Callers |-> 0]
  /\ processesToKill = [c \in Callers |-> <<>>]
  /\ killIdx = [c \in Callers |-> 0]
  /\ firstCaller = "none"
  /\ executors = {}
  /\ exitedBy = "none"
  /\ termCount = [v \in Procs |-> 0]
  /\ killCount = [v \in Procs |-> 0]
  /\ browserReleases = 0
  /\ statsEmitted = 0
  /\ gvfScript = << >>
  /\ gvfPc = "idle"
  /\ gvfRuns = <<>>
  /\ gvfResult = ""
  /\ relArgs = << >>
  /\ relOut = << >>
  /\ evictedFor = [w \in Workers |-> EmptyUrl]
  /\ nevict = 0
  /\ dl = [u \in PageVideos |-> NoTask]
  /\ videoUrlMap = << >>
  /\ processedVideos = {}
  /\ tempCookies = {}
  /\ rewritten = {}

\* (depth, score) arguments of the calls: a body link and a nav link.
EnqArgs == {<<1, DefaultScore>>, <<2, 10>>}

InitEnqueue ==
  /\ InitState
  /\ concurrency = 1
  /\ maxConsecutiveFailures = 10
  /\ crawlScope \in Scopes
  /\ maxPages = 1
  /\ maxDepth = 1
  /\ startUrls \in StartUrlChoices

NextEnqueue ==
  \/ MainPopulateScope
  \/ MainSeed
  \/ /\ ncalls < MaxCalls
     /\ \/ \E u \in RawPool, a \in EnqArgs : EnqueueCall(u, a[1], a[2])
        \/ \E u \in RawPool : ListenerEnqueue(u, 0)
        \/ \E u \in RawPool, a \in EnqArgs : DiscoverLink(u, a[1] - 1, a[2], UrlAX)

SpecEnqueue == InitEnqueue /\ [][NextEnqueue]_vars

\* --------------------------------------- the queue-order specification
QueuePool == {UrlAX, UrlBY, UrlEZ, UrlOW}

\* Scores getLinkScore hands out: a body link, a nav link.
QueueScores == {DefaultScore, 10}

\* Depths of the pages the links are found on, plus one.
QueueDepths == {1, 2}

InitQueue ==
  /\ InitState
  /\ concurrency = 1
  /\ maxConsecutiveFailures = 10
  /\ crawlScope = "cross-domains"
  /\ maxPages = 1
  /\ maxDepth = 1
  /\ startUrls = <<UrlAX>>

NextQueue ==
  \/ MainPopulateScope
  \/ MainSeed
  \/ /\ ncalls < MaxQueueCalls
     /\ \E u \in QueuePool, d \in QueueDepths, s \in QueueScores : EnqueueCall(u, d, s)
  \/ Pop

SpecQueue == InitQueue /\ [][NextQueue]_vars

\* ------------------------------------------------ the cooldown manager
\* INTERNAL_CONSTANTS.defaultBackoffMs: the ends of the randInt range.
defaultBackoffMin == 5000
defaultBackoffMax == 10000

\* A Retry-After header: absent, a number of seconds (parseInt), an HTTP date
\* (ms since the epoch), or text that is neither.
NoHeader == [kind |-> "none", value |-> 0]

RetryAfterHeaders ==
  {NoHeader, [kind |-> "text", value |-> 0]}
  \cup [kind : {"seconds"}, value : (0 - MaxRetryAfter)..MaxRetryAfter]
  \cup [kind : {"date"}, value : {t * 1000 : t \in 0..(MaxTicks + MaxRetryAfter)}]

\* coolDownMs of activateRateLimitCoolDown: the default draw unless the header
\* gives seconds or a date.
coolDownMs(header, draw) ==
  CASE header.kind = "seconds" -> header.value * 1000
    [] header.kind = "date" -> header.value - now
    [] OTHER -> draw

\* newCoolDownUntil = Date.now() + Math.max(0, coolDownMs)
newCoolDownUntil(header, draw) ==
  LET ms == coolDownMs(header, draw)
  IN now + (IF ms > 0 THEN ms ELSE 0)

\* activateRateLimitCoolDown writing the new deadline without comparing it.
activateRateLimitCoolDownAlways(header, draw) == newCoolDownUntil(header, draw)

\* activateRateLimitCoolDown(headers, url): the global deadline afterwards.
activateRateLimitCoolDown(header, draw) ==
  IF newCoolDownUntil(header, draw) > coolDownUntil
  THEN newCoolDownUntil(header, draw)
  ELSE coolDownUntil

\* One call of activateRateLimitCoolDown by any component.
CoolDownCall(header, draw) ==
  /\ coolDownUntil' = activateRateLimitCoolDown(header, draw)
  /\ proposed' = proposed \cup {newCoolDownUntil(header, draw)}
  /\ ncalls' = ncalls + 1
  /\ call' = [NoCall EXCEPT !.op = "cooldown"]
  /\ UNCHANGED <<now, workVars, shutVars, configVars, helperVars, mainPc, initialHosts,
                 initialBaseDomains, queue, enqueued, visited, records, popped>>

\* One second passes.
Tick ==
  /\ now' = now + 1000
  /\ UNCHANGED <<coolDownUntil, proposed, workVars, shutVars, configVars, helperVars,
                 mainPc, initialHosts, initialBaseDomains, queue, enqueued, visited,
                 records, call, ncalls, popped>>

InitCoolDown ==
  /\ InitState
  /\ concurrency = 1
  /\ maxConsecutiveFailures = 10
  /\ crawlScope = "cross-domains"
  /\ maxPages = 1
  /\ maxDepth = 1
  /\ startUrls = <<UrlAX>>

NextCoolDown ==
  \/ /\ now < MaxTicks * 1000
     /\ Tick
  \/ /\ ncalls < MaxCoolCalls
     /\ \E h \in RetryAfterHeaders, draw \in {defaultBackoffMin, defaultBackoffMax} :
          CoolDownCall(h, draw)

SpecCoolDown == InitCoolDown /\ [][NextCoolDown]_vars

\* ------------------------------------------------------- the worker pool
\* worker, lines 717-723, with the depth test left out.
skipsJobVisitedOnly(crawlJob, vis) == crawlJob.url \in vis

\* worker, lines 717-723: a popped job the worker skips.
skipsJob(crawlJob, vis) == crawlJob.depth > maxDepth \/ crawlJob.url \in vis

\* The loop condition with the shutdown flag left out.
leavesLoopIgnoringFlag(stop, vis) == Cardinality(vis) >= maxPages

\* worker, lines 706-710: the loop ends when the shutdown flag is set or the
\* page budget is used up.
leavesLoop(stop, vis) == stop \/ Cardinality(vis) >= maxPages

RECURSIVE workerLoop(_, _, _)
\* worker, lines 706-726 and 773-776: the loop from its head to the next await.
\* The worker ends ("finished"), sleeps on an empty queue ("sleep") or holds a
\* job and waits out the politeness delay ("delay"); skipped jobs are popped
\* and dropped on the way.
workerLoop(q, vis, stop) ==
  IF leavesLoop(stop, vis)
  THEN [queue |-> q, job |-> NoJob, pc |-> "finished"]
  ELSE IF q = <<>> THEN [queue |-> q, job |-> NoJob, pc |-> "sleep"]
  ELSE LET crawlJob == q[Len(q)]
           rest == SubSeq(q, 1, Len(q) - 1)
       IN IF skipsJob(crawlJob, vis) THEN workerLoop(rest, vis, stop)
          ELSE [queue |-> rest, job |-> crawlJob, pc |-> "delay"]

RECURSIVE launchWorkers(_, _, _)
\* main, lines 653-655: worker(browser, i + 1, cookies) for i < concurrency;
\* each call runs to the worker's first await before the next one starts.
launchWorkers(i, q, started) ==
  IF i > concurrency THEN [queue |-> q, started |-> started]
  ELSE LET r == workerLoop(q, visited, shuttingDown)
       IN launchWorkers(i + 1, r.queue, started @@ (i :> r))

\* main, lines 627-655: with an empty queue the video-only path; otherwise the
\* browser is launched and the workers are started.
MainLaunch ==
  /\ mainPc = "seeded"
  /\ IF queue = <<>>
     THEN /\ mainPc' = "videoOnly"
          /\ UNCHANGED <<queue, wpc, wjob, activeWorkers, browserInstance, monitorOn>>
     ELSE LET l == launchWorkers(1, queue, << >>)
          IN /\ mainPc' = "crawling"
             /\ browserInstance' = TRUE
             /\ monitorOn' = TRUE
             /\ queue' = l.queue
             /\ wpc' = [w \in Workers |->
                          IF w <= concurrency THEN l.started[w].pc ELSE "off"]
             /\ wjob' = [w \in Workers |->
                           IF w <= concurrency THEN l.started[w].job ELSE NoJob]
             /\ activeWorkers' =
                  Cardinality({w \in 1..concurrency : l.started[w].pc = "delay"})
  /\ UNCHANGED <<coolVars, configVars, helperVars, initialHosts, initialBaseDomains, enqueued,
                 visited, records, werr, pageCrawlError, wsave, files, created, pagesCrawled,
                 consecutiveFailures, navigated, nfail, shuttingDown, procVars,
                 callVars, call, ncalls, popped>>

\* worker, line 775: the sleep on an empty queue is over.
WorkerWake(w) ==
  /\ wpc[w] = "sleep"
  /\ LET r == workerLoop(queue, visited, shuttingDown)
     IN /\ queue' = r.queue
        /\ wpc' = [wpc EXCEPT ![w] = r.pc]
        /\ wjob' = [wjob EXCEPT ![w] = r.job]
        /\ activeWorkers' = activeWorkers + (IF r.pc = "delay" THEN 1 ELSE 0)
  /\ UNCHANGED <<coolVars, shutVars, configVars, helperVars, mainPc, initialHosts,
                 initialBaseDomains, enqueued, visited, records, werr, pageCrawlError,
                 wsave, files, created, pagesCrawled, consecutiveFailures, navigated, nfail, call, ncalls, popped>>

\* What page.goto and the steps around it come to (crawlPage, lines 791-828).
NavigationOutcomes == {"none", "closed", "timeout", "permanent", "retryable", "other"}

\* worker, lines 728-729, and crawlPage, lines 791-828: the politeness delay is
\* over, the page is opened, navigated and scrolled. outcome "none" is a 2xx
\* main response; "retryable" a 429/5xx answer of the main request or of a
\* sub-resource seen meanwhile (the cooldown is extended); "permanent" a
\* 401/403/404 main response; "other" no response or another status;
\* "timeout" a navigation timeout; "closed" a lost browser connection.
WorkerNavigate(w, outcome, header, draw) ==
  /\ wpc[w] = "delay"
  /\ navigated' = navigated \cup {[url |-> wjob[w].url, depth |-> wjob[w].depth]}
  /\ werr' = [werr EXCEPT ![w] = outcome]
  /\ wpc' = [wpc EXCEPT ![w] = IF outcome = "none" THEN "loaded" ELSE "closing"]
  /\ nfail' = nfail + (IF outcome = "none" THEN 0 ELSE 1)
  /\ IF outcome = "retryable"
     THEN /\ coolDownUntil' = activateRateLimitCoolDown(header, draw)
          /\ proposed' = proposed \cup {newCoolDownUntil(header, draw)}
     ELSE UNCHANGED <<coolDownUntil, proposed>>
  /\ UNCHANGED <<now, shutVars, configVars, helperVars, mainPc, initialHosts, initialBaseDomains,
                 queue, enqueued, visited, records, wjob, pageCrawlError, wsave, files, created,
                 pagesCrawled, consecutiveFailures, activeWorkers, call, ncalls, popped>>

\* The pcs at which the page's response listener is attached and a response
\* can still arrive.
ListenerPcs == {"loaded", "discovered", "saving"}

\* setupResponseListener, lines 1252-1259: a sub-resource answers 429/5xx; the
\* cooldown is extended and setError records the page error.
ResponseRetryable(w, header, draw) ==
  /\ wpc[w] \in ListenerPcs
  /\ ~shuttingDown
  /\ coolDownUntil' = activateRateLimitCoolDown(header, draw)
  /\ proposed' = proposed \cup {newCoolDownUntil(header, draw)}
  /\ pageCrawlError' = [pageCrawlError EXCEPT ![w] = TRUE]
  /\ nfail' = nfail + 1
  /\ UNCHANGED <<now, shutVars, configVars, helperVars, mainPc, initialHosts, initialBaseDomains,
                 queue, enqueued, visited, records, wpc, wjob, werr, wsave, files, created,
                 pagesCrawled, consecutiveFailures, activeWorkers, navigated,
                 call, ncalls, popped>>

\* setupResponseListener, lines 1243-1264: an ok document response (an iframe)
\* is enqueued at depth + 1 with the default score.
ResponseDocument(w, url) ==
  /\ wpc[w] \in ListenerPcs
  /\ ~shuttingDown
  /\ normalizeUrl(url) # EmptyUrl
  /\ LET st == enqueue(CrawlState, normalizeUrl(url), wjob[w].depth + 1, DefaultScore)
     IN /\ queue' = st.queue
        /\ enqueued' = st.enqueued
        /\ records' = st.records
  /\ UNCHANGED <<coolVars, shutVars, configVars, helperVars, mainPc, initialHosts,
                 initialBaseDomains, visited, wpc, wjob, werr, pageCrawlError, wsave,
                 files, created, pagesCrawled, consecutiveFailures, activeWorkers, navigated,
                 nfail, call, ncalls, popped>>

RECURSIVE discoverLinks(_, _, _, _)
\* crawlPage, lines 852-889: the loop over the de-duplicated links; an
\* exception leaves the loop.
discoverLinks(st, links, depth, pageUrl) ==
  IF links = <<>> \/ st.threw THEN st
  ELSE discoverLinks(discoverLink(st, Head(links).url, depth, Head(links).score, pageUrl),
                     Tail(links), depth, pageUrl)

\* crawlPage, lines 831-892: discoverLinksAndAssets has returned; every link
\* is enqueued and predicted, then a page error recorded meanwhile is thrown.
WorkerDiscover(w, links) ==
  /\ wpc[w] = "loaded"
  /\ LET st == discoverLinks(CrawlState, links, wjob[w].depth, wjob[w].url)
         err == IF st.threw THEN "other"
                ELSE IF pageCrawlError[w] THEN "retryable" ELSE "none"
     IN /\ queue' = st.queue
        /\ enqueued' = st.enqueued
        /\ records' = st.records
        /\ werr' = [werr EXCEPT ![w] = err]
        /\ wpc' = [wpc EXCEPT ![w] = IF err = "none" THEN "discovered" ELSE "closing"]
  /\ UNCHANGED <<coolVars, shutVars, configVars, helperVars, mainPc, initialHosts,
                 initialBaseDomains, visited, wjob, pageCrawlError, wsave, files, created,
                 pagesCrawled, consecutiveFailures, activeWorkers, navigated, nfail, call, ncalls, popped>>

\* isLikelyHtml(contentType)
isLikelyHtml(contentType) == contentType = "text/html"

\* records.get(url) || predictRecord(url, guessIsPage, foundOnUrl): the Record
\* the expression yields, and the Record Store afterwards.
getOrPredict(recs, url, guessIsPage, foundOnUrl) ==
  IF Has(recs, url) THEN recs
  ELSE predictRecord(recs, url, guessIsPage, foundOnUrl)

recordOf(recs, url) == IF Has(recs, url) THEN recs[url] ELSE recs[normalizeUrl(url)]

RECURSIVE collectAssets(_, _, _)
\* archivePageAndAssets, lines 931-984: one contentToSave entry per captured
\* response, keyed by the file path of its Record.
collectAssets(st, pageUrl, captured) ==
  IF captured = <<>> THEN st
  ELSE LET a == Head(captured)
           recs == getOrPredict(st.records, a.url, FALSE, pageUrl)
           assetFile == recordOf(recs, a.url).filePath
       IN IF a.url = pageUrl /\ isLikelyHtml(a.contentType)
          THEN collectAssets(st, pageUrl, Tail(captured))
          ELSE collectAssets(
                 [records |-> recs,
                  content |-> Put(st.content, assetFile,
                                  [url |-> a.url, contentType |-> a.contentType,
                                   status |-> a.status, isPage |-> FALSE,
                                   result |-> "none", settled |-> FALSE])],
                 pageUrl, Tail(captured))

\* archivePageAndAssets, lines 922-988: the Record Store and contentToSave
\* when the parallel saves start; the page's entry is set last.
contentToSave(recs, pageUrl, captured) ==
  LET recs1 == getOrPredict(recs, pageUrl, TRUE, EmptyUrl)
      pageFile == recordOf(recs1, pageUrl).filePath
      st == collectAssets([records |-> recs1, content |-> << >>], pageUrl, captured)
  IN [records |-> st.records,
      content |-> Put(st.content, pageFile,
                      [url |-> pageUrl, contentType |-> "text/html", status |-> 200,
                       isPage |-> TRUE, result |-> "none", settled |-> FALSE])]

\* crawlPage, lines 896-904, and archivePageAndAssets, lines 922-1009: the
\* assets are fetched and resolved; a page error recorded so far is thrown,
\* otherwise the content to save is assembled and the saves are started.
WorkerArchive(w, captured) ==
  /\ wpc[w] = "discovered"
  /\ IF pageCrawlError[w]
     THEN /\ werr' = [werr EXCEPT ![w] = "retryable"]
          /\ wpc' = [wpc EXCEPT ![w] = "closing"]
          /\ UNCHANGED <<records, wsave>>
     ELSE LET c == contentToSave(records, wjob[w].url, captured)
          IN /\ records' = c.records
             /\ wsave' = [wsave EXCEPT ![w] = c.content]
             /\ wpc' = [wpc EXCEPT ![w] = "saving"]
             /\ UNCHANGED werr
  /\ UNCHANGED <<coolVars, shutVars, configVars, helperVars, mainPc, initialHosts,
                 initialBaseDomains, queue, enqueued, visited, wjob, pageCrawlError,
                 files, created, pagesCrawled, consecutiveFailures, activeWorkers, navigated,
                 nfail, call, ncalls, popped>>

\* writeFile without the exclusive flag: an existing file is overwritten.
writeFileOverwrite(disk, filePath) == "wrote"

\* fs.promises.writeFile(filePath, buffer, {flag: "wx"}): the file is created
\* unless it exists.
writeFileWx(disk, filePath) == IF filePath \in disk THEN "eexist" ELSE "wrote"

\* archivePageAndAssets, lines 994-995: the directory is ensured and the
\* exclusive write is carried out by the file system; ioError is a failure
\* other than EEXIST.
FsWrite(w, f, ioError) ==
  /\ wpc[w] = "saving"
  /\ f \in DOMAIN wsave[w]
  /\ wsave[w][f].result = "none"
  /\ LET result == IF ioError THEN "failed" ELSE writeFileWx(files, f)
     IN /\ wsave' = [wsave EXCEPT ![w][f].result = result]
        /\ files' = IF result = "wrote" THEN files \cup {f} ELSE files
        /\ created' = IF result = "wrote" THEN created (+) SetToBag({f}) ELSE created
  /\ nfail' = nfail + (IF ioError THEN 1 ELSE 0)
  /\ UNCHANGED <<coolVars, shutVars, configVars, helperVars, mainPc, initialHosts,
                 initialBaseDomains, queue, enqueued, visited, records, wpc, wjob, werr,
                 pageCrawlError, pagesCrawled, consecutiveFailures, activeWorkers,
                 navigated, call, ncalls, popped>>

\* archivePageAndAssets, lines 996-1011: the continuation of one save; the
\* Record is finalized after a write and after EEXIST, and the last save to
\* settle lets crawlPage go on to page.close().
SaveSettle(w, f) ==
  /\ wpc[w] = "saving"
  /\ f \in DOMAIN wsave[w]
  /\ wsave[w][f].result # "none"
  /\ ~wsave[w][f].settled
  /\ LET e == wsave[w][f]
     IN records' = IF e.result = "failed" THEN records
                   ELSE finalizeRecord(records, e.url, f, e.contentType, e.status,
                                       e.isPage, wjob[w].url)
  /\ wsave' = [wsave EXCEPT ![w][f].settled = TRUE]
  /\ wpc' = [wpc EXCEPT ![w] =
               IF \A g \in DOMAIN wsave[w] : g = f \/ wsave[w][g].settled
               THEN "closing" ELSE "saving"]
  /\ UNCHANGED <<coolVars, shutVars, configVars, helperVars, mainPc, initialHosts,
                 initialBaseDomains, queue, enqueued, visited, wjob, werr,
                 pageCrawlError, files, created, pagesCrawled, consecutiveFailures,
                 activeWorkers, navigated, nfail, call, ncalls, popped>>

\* worker, lines 730-771, after crawlPage's finally (line 911): page.close()
\* has settled (closeOk, or a lost connection), the job is booked as a
\* success or handled as a failure, and the loop runs on to its next await.
\* The test for a permanent status left out: no error is permanent.
isPermanentNever(err) == FALSE

\* worker, lines 748-755: the error message carries status 401, 403 or 404.
isPermanent(err) == err = "permanent"

\* The retry test without its ceiling: a failed job is always re-queued.
retriesLeftAlways(retries) == TRUE

\* worker, line 764: retries < INTERNAL_CONSTANTS.maxRetries
retriesLeft(retries) == retries < maxRetries

WorkerSettle(w, closeOk, draw) ==
  /\ wpc[w] = "closing"
  /\ LET err == IF closeOk THEN werr[w] ELSE "closed"
         job == wjob[w]
         success == err = "none"
         failures == IF success THEN 0 ELSE consecutiveFailures + 1
         permanent == isPermanent(err)
         returns == \/ err = "closed"
                    \/ ~success /\ ~permanent /\ failures >= maxConsecutiveFailures
         requeue == ~success /\ ~permanent /\ ~returns /\ retriesLeft(job.retries)
         vis == IF success THEN visited \cup {job.url} ELSE visited
         q == IF requeue
              THEN Append(queue, [url |-> job.url, depth |-> job.depth,
                                  retries |-> job.retries + 1, score |-> Undefined])
              ELSE queue
         r == IF returns THEN [queue |-> q, job |-> NoJob, pc |-> "returned"]
              ELSE workerLoop(q, vis, shuttingDown)
     IN /\ visited' = vis
        /\ pagesCrawled' = pagesCrawled + (IF success THEN 1 ELSE 0)
        /\ consecutiveFailures' = failures
        /\ IF err = "timeout"
           THEN /\ coolDownUntil' = activateRateLimitCoolDown(NoHeader, draw)
                /\ proposed' = proposed \cup {newCoolDownUntil(NoHeader, draw)}
           ELSE UNCHANGED <<coolDownUntil, proposed>>
        /\ queue' = r.queue
        /\ wpc' = [wpc EXCEPT ![w] = r.pc]
        /\ wjob' = [wjob EXCEPT ![w] = r.job]
        /\ activeWorkers' = activeWorkers - 1 + (IF r.pc = "delay" THEN 1 ELSE 0)
  /\ werr' = [werr EXCEPT ![w] = "none"]
  /\ wsave' = [wsave EXCEPT ![w] = << >>]
  /\ pageCrawlError' = [pageCrawlError EXCEPT ![w] = FALSE]
  /\ nfail' = nfail + (IF closeOk THEN 0 ELSE 1)
  /\ UNCHANGED <<now, shutVars, configVars, helperVars, mainPc, initialHosts, initialBaseDomains,
                 enqueued, records, files, created, navigated,
                 call, ncalls, popped>>

\* ------------------------------------------------ the crawl specification
UrlStyle == Url("https:", HostA, <<"style.css">>)

\* The site: what discoverLinksAndAssets finds on each page, after
\* de-duplication. Two pages link to the same third one, one links to itself.
Link(u) == [url |-> u, score |-> DefaultScore]

SiteLinks(pageUrl) ==
  CASE pageUrl = UrlAX -> <<Link(UrlEZ), Link(UrlAX)>>
    [] pageUrl = UrlBY -> <<Link(UrlEZ), Link(UrlStyle)>>
    [] pageUrl = UrlEZ -> <<Link(UrlOW)>>
    [] OTHER -> <<>>

InitCrawl ==
  /\ InitState
  /\ crawlScope = "cross-domains"
  /\ \E c \in {<<1, 1>>, <<2, 0>>, <<2, 1>>} : maxPages = c[1] /\ maxDepth = c[2]
  /\ startUrls = <<UrlAX, UrlBY>>
  /\ concurrency = MaxWorkers
  /\ maxConsecutiveFailures = 2

NextCrawl ==
  \/ MainPopulateScope
  \/ MainSeed
  \/ MainLaunch
  \/ \E w \in Workers : WorkerWake(w)
  \/ \E w \in Workers, outcome \in NavigationOutcomes :
       /\ outcome # "none" => nfail < MaxFailures
       /\ WorkerNavigate(w, outcome, NoHeader, defaultBackoffMin)
  \/ \E w \in Workers : ResponseDocument(w, UrlOW)
  \/ \E w \in Workers : WorkerDiscover(w, SiteLinks(wjob[w].url))
  \/ \E w \in Workers : WorkerArchive(w, <<>>)
  \/ \E w \in Workers : \E f \in DOMAIN wsave[w] : FsWrite(w, f, FALSE)
  \/ \E w \in Workers : \E f \in DOMAIN wsave[w] : SaveSettle(w, f)
  \/ \E w \in Workers : WorkerSettle(w, TRUE, defaultBackoffMin)

SpecCrawl == InitCrawl /\ [][NextCrawl]_vars

\* ---------------------------------------------- the archive specification
\* Responses a page captured besides its own document: a stylesheet both
\* start pages use, and an image.
UrlLogo == Url("https:", HostA, <<"logo.png">>)

AssetStyle == [url |-> UrlStyle, contentType |-> "text/css", status |-> 200]
AssetLogo == [url |-> UrlLogo, contentType |-> "image/png", status |-> 200]

CapturedChoices == {<<AssetStyle>>, <<AssetLogo, AssetStyle>>}

InitArchive ==
  /\ InitState
  /\ crawlScope = "cross-domains"
  /\ maxPages = 2
  /\ maxDepth = 0
  /\ startUrls = <<UrlAX, UrlBY>>
  /\ concurrency = MaxWorkers
  /\ maxConsecutiveFailures = 2

NextArchive ==
  \/ MainPopulateScope
  \/ MainSeed
  \/ MainLaunch
  \/ \E w \in Workers : WorkerWake(w)
  \/ \E w \in Workers : WorkerNavigate(w, "none", NoHeader, defaultBackoffMin)
  \/ /\ nfail < MaxFailures
     /\ \E w \in Workers : ResponseRetryable(w, NoHeader, defaultBackoffMin)
  \/ \E w \in Workers : WorkerDiscover(w, <<Link(UrlStyle)>>)
  \/ \E w \in Workers, captured \in CapturedChoices : WorkerArchive(w, captured)
  \/ \E w \in Workers : \E f \in DOMAIN wsave[w], ioError \in BOOLEAN :
       /\ ioError => nfail < MaxFailures
       /\ FsWrite(w, f, ioError)
  \/ \E w \in Workers : \E f \in DOMAIN wsave[w] : SaveSettle(w, f)
  \/ \E w \in Workers, closeOk \in BOOLEAN :
       /\ ~closeOk => nfail < MaxFailures
       /\ WorkerSettle(w, closeOk, defaultBackoffMin)

SpecArchive == InitArchive /\ [][NextArchive]_vars

\* ------------------------------------------------ the retry specification
\* Pages that fail again and again: every navigation may fail with a
\* retryable answer, a permanent client error or another error, as often as
\* the worker comes back to the page; the pages have no links.
InitRetry ==
  /\ InitState
  /\ crawlScope = "cross-domains"
  /\ maxPages = 3
  /\ maxDepth = 0
  /\ startUrls \in {<<UrlAX>>, <<UrlAX, UrlBY>>, <<UrlAX, UrlBY, UrlEZ>>}
  /\ concurrency = 2
  /\ maxConsecutiveFailures = 10

NextRetry ==
  \/ MainPopulateScope
  \/ MainSeed
  \/ MainLaunch
  \/ \E w \in Workers : WorkerWake(w)
  \/ \E w \in Workers, outcome \in {"none", "retryable", "permanent", "other"} :
       WorkerNavigate(w, outcome, NoHeader, defaultBackoffMin)
  \/ \E w \in Workers : WorkerDiscover(w, <<>>)
  \/ \E w \in Workers : WorkerArchive(w, <<>>)
  \/ \E w \in Workers : \E f \in DOMAIN wsave[w] : FsWrite(w, f, FALSE)
  \/ \E w \in Workers : \E f \in DOMAIN wsave[w] : SaveSettle(w, f)
  \/ \E w \in Workers : WorkerSettle(w, TRUE, defaultBackoffMin)

SpecRetry == InitRetry /\ [][NextRetry]_vars

\* ------------------------------------------ the evicted-asset specification
\* handleEvictedAsset for a non-text asset, lines 1546-1551: the response
\* body was evicted from the inspector cache, the fallback fetch answered,
\* the Record is predicted and the write stream is opened with the exclusive
\* flag. EEXIST ends the fallback at once (lines 1562-1565). The promise was
\* started by the response handler while the page job is in flight.
EvictedAssetOpen(w, asset) ==
  /\ wpc[w] \in {"loaded", "discovered"}
  /\ evictedFor[w] = EmptyUrl
  /\ nevict < MaxEvictions
  /\ LET pageUrl == wjob[w].url
         recs == predictRecord(records, asset.url, FALSE, pageUrl)
         filePath == recs[asset.url].filePath
         result == writeFileWx(files, filePath)
     IN /\ records' = recs
        /\ files' = IF result = "wrote" THEN files \cup {filePath} ELSE files
        /\ created' = IF result = "wrote" THEN created (+) SetToBag({filePath})
                      ELSE created
        /\ evictedFor' = [evictedFor EXCEPT ![w] =
                            IF result = "wrote" THEN pageUrl ELSE EmptyUrl]
  /\ nevict' = nevict + 1
  /\ UNCHANGED <<coolVars, shutVars, configVars, gvfVars, relVars, downloadVars, mainPc, initialHosts,
                 initialBaseDomains, queue, enqueued, visited, wpc, wjob, werr,
                 pageCrawlError, wsave, pagesCrawled, consecutiveFailures,
                 activeWorkers, navigated, nfail, call, ncalls, popped>>

\* handleEvictedAsset, lines 1552-1558: the pipeline has ended and the
\* Record is finalized; nothing of the page job is consulted.
EvictedAssetDone(w, asset) ==
  /\ evictedFor[w] # EmptyUrl
  /\ records' = finalizeRecord(records, asset.url, urlToFilePath(asset.url, FALSE),
                               asset.contentType, asset.status, FALSE, evictedFor[w])
  /\ evictedFor' = [evictedFor EXCEPT ![w] = EmptyUrl]
  /\ UNCHANGED <<coolVars, shutVars, configVars, gvfVars, relVars, downloadVars, nevict, mainPc,
                 initialHosts, initialBaseDomains, queue, enqueued, visited, wpc, wjob,
                 werr, pageCrawlError, wsave, files, created, pagesCrawled,
                 consecutiveFailures, activeWorkers, navigated, nfail, call, ncalls,
                 popped>>

\* One page, whose image is evicted from the cache; its stylesheet is
\* captured in memory.
InitEvict ==
  /\ InitState
  /\ crawlScope = "cross-domains"
  /\ maxPages = 1
  /\ maxDepth = 0
  /\ startUrls = <<UrlAX>>
  /\ concurrency = MaxWorkers
  /\ maxConsecutiveFailures = 2

\* resolveAssetResponses (line 898) awaits every response promise, the
\* fallback stream included, before crawlPage's final check.
NextEvict ==
  \/ MainPopulateScope
  \/ MainSeed
  \/ MainLaunch
  \/ \E w \in Workers : WorkerWake(w)
  \/ \E w \in Workers : WorkerNavigate(w, "none", NoHeader, defaultBackoffMin)
  \/ /\ nfail < MaxFailures
     /\ \E w \in Workers : ResponseRetryable(w, NoHeader, defaultBackoffMin)
  \/ \E w \in Workers : EvictedAssetOpen(w, AssetLogo)
  \/ \E w \in Workers : EvictedAssetDone(w, AssetLogo)
  \/ \E w \in Workers : WorkerDiscover(w, <<Link(UrlStyle)>>)
  \/ \E w \in Workers :
       /\ evictedFor[w] = EmptyUrl
       /\ \E captured \in {<<>>, <<AssetStyle>>} : WorkerArchive(w, captured)
  \/ \E w \in Workers : \E f \in DOMAIN wsave[w], ioError \in BOOLEAN :
       /\ ioError => nfail < MaxFailures
       /\ FsWrite(w, f, ioError)
  \/ \E w \in Workers : \E f \in DOMAIN wsave[w] : SaveSettle(w, f)
  \/ \E w \in Workers : WorkerSettle(w, TRUE, defaultBackoffMin)

SpecEvict == InitEvict /\ [][NextEvict]_vars

\* ----------------------------------------- the Record Store specification
\* One call predictRecord(url, guessIsPage, foundOnUrl) that returns.
PredictCall(url, guessIsPage, foundOnUrl) ==
  /\ ~predictThrows(records, url)
  /\ records' = predictRecord(records, url, guessIsPage, foundOnUrl)
  /\ call' = [NoCall EXCEPT !.op = "predict", !.url = normalizeUrl(url),
                            !.args = <<guessIsPage, foundOnUrl>>]
  /\ ncalls' = ncalls + 1
  /\ UNCHANGED <<coolVars, workVars, shutVars, configVars, helperVars, mainPc, initialHosts,
                 initialBaseDomains, queue, enqueued, visited, popped>>

\* One call finalizeRecord(url, filePath, contentType, status, isPage, foundOnUrl).
FinalizeCall(url, filePath, contentType, status, isPage, foundOnUrl) ==
  /\ records' = finalizeRecord(records, url, filePath, contentType, status, isPage,
                               foundOnUrl)
  /\ call' = [NoCall EXCEPT !.op = "finalize", !.url = url,
                            !.args = <<filePath, contentType, status, isPage>>]
  /\ ncalls' = ncalls + 1
  /\ UNCHANGED <<coolVars, workVars, shutVars, configVars, helperVars, mainPc, initialHosts,
                 initialBaseDomains, queue, enqueued, visited, popped>>

\* URLs the calls are made for: a page, the same page with a fragment (a
\* spelling predictRecord normalizes and finalizeRecord does not), an asset.
RecordUrls == {UrlAX, [UrlAX EXCEPT !.hash = TRUE], UrlStyle}

\* (contentType, status, isPage) of the finalizations: a page, a stylesheet, a
\* failed response saved as an asset.
FinalizeArgs == {<<"text/html", 200, TRUE>>, <<"text/css", 200, FALSE>>, <<"", 404, FALSE>>}

InitRecords ==
  /\ InitState
  /\ concurrency = 1
  /\ maxConsecutiveFailures = 10
  /\ crawlScope = "cross-domains"
  /\ maxPages = 1
  /\ maxDepth = 1
  /\ startUrls = <<UrlAX>>

NextRecords ==
  /\ ncalls < MaxRecordCalls
  /\ \/ \E u \in RecordUrls, g \in BOOLEAN, on \in {EmptyUrl, UrlBY} : PredictCall(u, g, on)
     \/ \E u \in RecordUrls, v \in {UrlAX, UrlStyle}, a \in FinalizeArgs :
          FinalizeCall(u, urlToFilePath(v, a[3]), a[1], a[2], a[3], UrlBY)

SpecRecords == InitRecords /\ [][NextRecords]_vars

\* ------------------------------------------ the reachability specification
\* A site on which one page is linked from a start page and from a page one
\* level below the other start page.
DeepSite(pageUrl) ==
  CASE pageUrl = UrlAX -> <<Link(UrlEZ)>>
    [] pageUrl = UrlEZ -> <<Link(UrlOW)>>
    [] pageUrl = UrlBY -> <<Link(UrlOW)>>
    [] OTHER -> <<>>

\* A page budget that covers the whole site, and no failure.
InitReach ==
  /\ InitState
  /\ crawlScope = "cross-domains"
  /\ maxPages = 4
  /\ maxDepth = 1
  /\ startUrls = <<UrlAX, UrlBY>>
  /\ concurrency = 2
  /\ maxConsecutiveFailures = 10

\* The steps that wait for a timer, the browser or the file system.
AwaitedStep ==
  \/ MainPopulateScope
  \/ MainLaunch
  \/ \E w \in Workers : WorkerWake(w)
  \/ \E w \in Workers : WorkerNavigate(w, "none", NoHeader, defaultBackoffMin)
  \/ \E w \in Workers : WorkerArchive(w, <<>>)
  \/ \E w \in Workers : \E f \in DOMAIN wsave[w] : FsWrite(w, f, FALSE)
  \/ \E w \in Workers : \E f \in DOMAIN wsave[w] : SaveSettle(w, f)
  \/ \E w \in Workers : WorkerSettle(w, TRUE, defaultBackoffMin)

NextReach ==
  \/ AwaitedStep
  \/ MainSeed
  \/ \E w \in Workers : WorkerDiscover(w, DeepSite(wjob[w].url))

\* Timers fire and the browser and the file system answer, so an awaited
\* step that stays possible is taken; the seeding in main and the link loop
\* of crawlPage are synchronous code, which runs to its end.
SpecReach ==
  /\ InitReach
  /\ [][NextReach]_vars
  /\ WF_vars(AwaitedStep)
  /\ []<>(mainPc # "scoped")
  /\ \A w \in Workers : []<>(wpc[w] # "loaded")

\* ------------------------------------------------ the file path mapping
\* Canonical URLs of one site: a directory-style page and its index.html, a
\* script page and the static page of the same name, the page over plain
\* HTTP, and two assets.
PathUrls ==
  { UrlAX, Url("https:", HostA, <<"x", "index.html">>),
    Url("https:", HostA, <<"page.php">>), Url("https:", HostA, <<"page.html">>),
    Url("http:", HostA, <<"x">>), UrlStyle, UrlLogo }

InitPaths ==
  /\ InitState
  /\ concurrency = 1
  /\ maxConsecutiveFailures = 10
  /\ crawlScope = "cross-domains"
  /\ maxPages = 1
  /\ maxDepth = 1
  /\ startUrls = <<UrlAX>>

NextPaths ==
  \/ /\ ncalls < MaxRecordCalls
     /\ \E u \in PathUrls, g \in BOOLEAN : PredictCall(u, g, UrlAX)
  \/ /\ ncalls < MaxRecordCalls
     /\ \E u \in PathUrls :
          /\ Has(records, u)
          /\ FinalizeCall(u, records[u].filePath, records[u].contentType, 200,
                          records[u].isPage, UrlAX)

SpecPaths == InitPaths /\ [][NextPaths]_vars

\* ------------------------------------------------ the shutdown coordinator
\* A download v goes "running" (yt-dlp spawned) -> "exited" (proc.exitCode is
\* set) -> "closed" ('close' handled: cleanup has run, the promise is
\* settled) -> "settled" (the promise's finally has decremented the counter).
\* SIGKILL comes with removeAllListeners: "killed", and the promise never
\* settles.
RECURSIVE reversed(_)
\* Array.from(set).reverse(): downloads are added to the Set in the order of
\* their numbers.
reversed(S) ==
  IF S = {} THEN <<>>
  ELSE LET m == CHOOSE x \in S : \A y \in S : y <= x
       IN <<m>> \o reversed(S \ {m})

\* What performShutdown reads and writes, as seen by the call of caller c.
ShutdownState(c) ==
  [adp |-> activeDownloadProcesses, avd |-> activeVideoDownloads, video |-> video,
   browser |-> browserInstance, term |-> termCount, kill |-> killCount,
   releases |-> browserReleases, stats |-> statsEmitted,
   ptk |-> processesToKill[c], idx |-> killIdx[c], pc |-> sdPc[c]]

\* The forced kills left out: no process is killed or removed from the set.
forceKillNone(st, i) == st

RECURSIVE forceKill(_, _)
\* performShutdown, lines 2413-2425: SIGKILL for every process whose exitCode
\* is still null (a process already sent SIGKILL counts as such), and every
\* process leaves the set.
forceKill(st, i) ==
  IF i > Len(st.ptk) THEN st
  ELSE LET proc == st.ptk[i]
           alive == st.video[proc] \in {"running", "killed"}
       IN forceKill([st EXCEPT !.video[proc] = IF alive THEN "killed" ELSE @,
                               !.kill[proc] = IF alive THEN @ + 1 ELSE @,
                               !.adp = @ \ {proc}],
                    i + 1)

RECURSIVE shutdownRun(_, _, _)
\* performShutdown, lines 2388-2486, from the point `at` to the next await:
\* "term" is the sleep after one SIGTERM, "grace" the wait before the forced
\* kills, "videos" the wait for the downloads, "drain" the sleep of the manual
\* count-down, "flush" the sleep before process.exit.
shutdownRun(st, at, exitCode) ==
  CASE at = "start" ->
         IF exitCode # 0 /\ st.adp # {}
         THEN shutdownRun([st EXCEPT !.ptk = reversed(st.adp), !.idx = 0],
                          "signal", exitCode)
         ELSE shutdownRun(st, "videos", exitCode)
    [] at = "signal" ->
         IF st.idx < Len(st.ptk)
         THEN [st EXCEPT !.term[st.ptk[st.idx + 1]] = @ + 1, !.idx = @ + 1,
                         !.pc = "term"]
         ELSE IF st.adp # {} THEN [st EXCEPT !.pc = "grace"]
         ELSE shutdownRun(st, "force", exitCode)
    [] at = "force" -> shutdownRun(forceKill(st, 1), "videos", exitCode)
    [] at = "videos" ->
         IF st.avd > 0 THEN [st EXCEPT !.pc = "videos"]
         ELSE shutdownRun(st, "browser", exitCode)
    [] at = "drain" ->
         IF st.avd # 0 THEN [st EXCEPT !.avd = @ - 1, !.pc = "drain"]
         ELSE shutdownRun(st, "browser", exitCode)
    [] OTHER ->
         [st EXCEPT !.browser = FALSE,
                    !.releases = IF st.browser THEN @ + 1 ELSE @,
                    !.stats = @ + 1, !.pc = "flush"]

\* The call of caller c goes on from `at` to its next await.
Proceed(c, at, exitCode) ==
  LET r == shutdownRun(ShutdownState(c), at, exitCode)
  IN /\ activeDownloadProcesses' = r.adp
     /\ activeVideoDownloads' = r.avd
     /\ video' = r.video
     /\ browserInstance' = r.browser
     /\ termCount' = r.term
     /\ killCount' = r.kill
     /\ browserReleases' = r.releases
     /\ statsEmitted' = r.stats
     /\ processesToKill' = [processesToKill EXCEPT ![c] = r.ptk]
     /\ killIdx' = [killIdx EXCEPT ![c] = r.idx]
     /\ sdPc' = [sdPc EXCEPT ![c] = r.pc]

\* performShutdown, line 2377, with the guard left out.
alreadyShuttingDownNever(flag) == FALSE

\* performShutdown, line 2377: the test of the guard.
alreadyShuttingDown(flag) == flag

\* performShutdown(reason, exitCode) called by c, lines 2376-2486, to its
\* first await: a call that finds the flag set returns at once; the first one
\* sets it, removes the signal handlers and starts the sequence.
performShutdown(c, exitCode) ==
  /\ sdPc[c] = "idle"
  /\ firstCaller' = IF firstCaller = "none" THEN c ELSE firstCaller
  /\ sdCode' = [sdCode EXCEPT ![c] = exitCode]
  /\ IF alreadyShuttingDown(shuttingDown)
     THEN /\ sdPc' = [sdPc EXCEPT ![c] = "skipped"]
          /\ UNCHANGED <<shuttingDown, browserInstance, procVars, handlers,
                         processesToKill, killIdx, executors, termCount, killCount,
                         browserReleases, statsEmitted>>
     ELSE /\ shuttingDown' = TRUE
          /\ handlers' = {}
          /\ executors' = executors \cup {c}
          /\ Proceed(c, "start", exitCode)
  /\ UNCHANGED <<exitStatus, exitedBy>>

\* What no caller of performShutdown touches.
crawlVars ==
  <<coolVars, workVars, configVars, helperVars, initialHosts, initialBaseDomains, queue,
    enqueued, visited, records, call, ncalls, popped>>

\* sigintHandler and sigtermHandler, lines 469-477, while they are registered
\* (a signal whose listener lines 2385-2386 have removed calls nothing).
SignalHandler(sig) ==
  /\ sig \in handlers
  /\ performShutdown(sig, 1)
  /\ UNCHANGED <<crawlVars, mainPc, monitorOn>>

\* The 'unhandledRejection' handler, lines 482-486.
UnhandledRejection ==
  /\ performShutdown("rejection", 1)
  /\ UNCHANGED <<crawlVars, mainPc, monitorOn>>

\* One tick of the monitor, lines 657-687: it stops itself once the shutdown
\* has begun; otherwise the global timeout, the stall timeout or the
\* completion check calls performShutdown (which test applies is a matter of
\* the clock, the conditions on the state are the code's).
\* The completion check with the worker counter left out.
crawlCompleteIgnoringWorkers(q, workers, downloads) == Len(q) = 0 /\ downloads = 0

\* main, line 679: the monitor's completion check.
crawlComplete(q, workers, downloads) == Len(q) = 0 /\ workers = 0 /\ downloads = 0

MonitorTick(kind) ==
  /\ monitorOn
  /\ monitorOn' = FALSE
  /\ IF shuttingDown
     THEN UNCHANGED <<shuttingDown, browserInstance, procVars, callVars>>
     ELSE /\ kind = "stall" => activeWorkers = 0 /\ Len(queue) > 0
          /\ kind = "complete" =>
               crawlComplete(queue, activeWorkers, activeVideoDownloads)
          /\ performShutdown("monitor", IF kind = "complete" THEN 0 ELSE 1)
  /\ UNCHANGED <<crawlVars, mainPc>>

\* main, lines 689-694: every worker has returned.
MainFinally ==
  /\ mainPc = "crawling"
  /\ \A w \in 1..concurrency : wpc[w] \in {"finished", "returned"}
  /\ mainPc' = "shutdown"
  /\ monitorOn' = FALSE
  /\ performShutdown("main", 0)
  /\ UNCHANGED crawlVars

\* main, lines 627-635: the video-only path, once every initial download's
\* promise has settled.
MainVideoOnly ==
  /\ mainPc = "videoOnly"
  /\ \A v \in Videos : video[v] \in {"none", "settled"}
  /\ mainPc' = "shutdown"
  /\ performShutdown("main", 0)
  /\ UNCHANGED <<crawlVars, monitorOn>>

\* An await of performShutdown is over: the sleep after a SIGTERM, the grace
\* period, the wait for the downloads (the condition holds at a poll, or the
\* 30 s are over) or the sleep of the manual count-down.
ShutdownResume(c, timedOut) ==
  /\ sdPc[c] \in {"term", "grace", "videos", "drain"}
  /\ sdPc[c] = "videos" => timedOut \/ activeVideoDownloads <= 0
  /\ Proceed(c, CASE sdPc[c] = "term" -> "signal"
                  [] sdPc[c] = "grace" -> "force"
                  [] OTHER -> "drain",
             sdCode[c])
  /\ UNCHANGED <<crawlVars, mainPc, shuttingDown, monitorOn, handlers, exitStatus,
                 sdCode, firstCaller, executors, exitedBy>>

\* performShutdown, lines 2486-2489: process.exit for a non-zero exit code,
\* a plain return otherwise.
ShutdownFinish(c) ==
  /\ sdPc[c] = "flush"
  /\ IF sdCode[c] # 0
     THEN /\ exitStatus' = sdCode[c]
          /\ exitedBy' = c
          /\ UNCHANGED sdPc
     ELSE /\ sdPc' = [sdPc EXCEPT ![c] = "returned"]
          /\ UNCHANGED <<exitStatus, exitedBy>>
  /\ UNCHANGED <<crawlVars, mainPc, shuttingDown, browserInstance, monitorOn,
                 procVars, handlers, sdCode, processesToKill, killIdx, firstCaller,
                 executors, termCount, killCount, browserReleases, statsEmitted>>

\* The yt-dlp process of download v ends by itself or on a SIGTERM:
\* proc.exitCode is set.
ProcExit(v) ==
  /\ video[v] = "running"
  /\ video' = [video EXCEPT ![v] = "exited"]
  /\ UNCHANGED <<crawlVars, mainPc, shuttingDown, browserInstance, monitorOn,
                 activeVideoDownloads, activeDownloadProcesses, callVars>>

\* attemptSingleDownload, lines 1775-1784: the 'close' handler runs cleanup.
ProcClose(v) ==
  /\ video[v] = "exited"
  /\ video' = [video EXCEPT ![v] = "closed"]
  /\ activeDownloadProcesses' = activeDownloadProcesses \ {v}
  /\ UNCHANGED <<crawlVars, mainPc, shuttingDown, browserInstance, monitorOn,
                 activeVideoDownloads, callVars>>

\* main, lines 600-602: the finally of the download's promise.
VideoSettle(v) ==
  /\ video[v] = "closed"
  /\ video' = [video EXCEPT ![v] = "settled"]
  /\ activeVideoDownloads' = activeVideoDownloads - 1
  /\ UNCHANGED <<crawlVars, mainPc, shuttingDown, browserInstance, monitorOn,
                 activeDownloadProcesses, callVars>>

\* ---------------------------------------------- the shutdown specification
\* The i-th video start URL.
VideoUrl(i) == Url("https:", HostV, [j \in 1..i |-> "v"])

\* MaxVideos video start URLs, in order.
VideoUrls == [i \in 1..MaxVideos |-> VideoUrl(i)]

\* The runs: videos only; one page (the page budget) with videos; one page
\* and a worker that idles; one video given in two spellings; two pages.
ShutdownConfigs ==
  { [urls |-> VideoUrls, maxPages |-> 1],
    [urls |-> <<UrlAX>> \o VideoUrls, maxPages |-> 1],
    [urls |-> <<UrlAX>>, maxPages |-> 2],
    [urls |-> <<VideoUrl(1), [VideoUrl(1) EXCEPT !.hash = TRUE]>>, maxPages |-> 1],
    [urls |-> <<UrlAX, UrlBY>>, maxPages |-> 2] }

InitShutdown ==
  /\ InitState
  /\ crawlScope = "same-domain"
  /\ \E c \in ShutdownConfigs : startUrls = c.urls /\ maxPages = c.maxPages
  /\ maxDepth = 0
  /\ concurrency = 1
  /\ maxConsecutiveFailures = 1

\* The process runs: process.exit has not been called.
Alive == exitStatus = Running /\ mainPc # "exited"

NextShutdown ==
  \/ Alive /\ MainPopulateScope
  \/ Alive /\ MainSeed
  \/ Alive /\ MainLaunch
  \/ Alive /\ \E w \in Workers : WorkerWake(w)
  \/ Alive /\ \E w \in Workers, outcome \in {"none", "closed", "permanent", "other"} :
       /\ outcome = "none" => browserInstance
       /\ WorkerNavigate(w, outcome, NoHeader, defaultBackoffMin)
  \/ Alive /\ \E w \in Workers : WorkerDiscover(w, <<>>)
  \/ Alive /\ \E w \in Workers : WorkerArchive(w, <<>>)
  \/ Alive /\ \E w \in Workers : \E f \in DOMAIN wsave[w] : FsWrite(w, f, FALSE)
  \/ Alive /\ \E w \in Workers : \E f \in DOMAIN wsave[w] : SaveSettle(w, f)
  \/ Alive /\ \E w \in Workers : WorkerSettle(w, TRUE, defaultBackoffMin)
  \/ Alive /\ \E sig \in {"SIGINT", "SIGTERM"} : SignalHandler(sig)
  \/ Alive /\ UnhandledRejection
  \/ Alive /\ \E kind \in {"global", "stall", "complete"} : MonitorTick(kind)
  \/ Alive /\ MainFinally
  \/ Alive /\ MainVideoOnly
  \/ Alive /\ \E c \in Callers, timedOut \in BOOLEAN :
       /\ sdPc[c] = "drain" => activeVideoDownloads >= -MaxUnderflow
       /\ ShutdownResume(c, timedOut)
  \/ Alive /\ \E c \in Callers : ShutdownFinish(c)
  \/ Alive /\ \E v \in Videos : ProcExit(v)
  \/ Alive /\ \E v \in Videos : ProcClose(v)
  \/ Alive /\ \E v \in Videos : VideoSettle(v)

SpecShutdown == InitShutdown /\ [][NextShutdown]_vars

\* ------------------------------------------- the termination specification
\* The steps of the program itself in a run without a termination signal,
\* without an unhandled rejection and with the global timeout disabled
\* (CONFIG.globalTimeoutMs = 0): the event loop runs every callback that is
\* due.
ProgramStep ==
  \/ Alive /\ MainPopulateScope
  \/ Alive /\ MainSeed
  \/ Alive /\ MainLaunch
  \/ Alive /\ \E w \in Workers : WorkerWake(w)
  \/ Alive /\ \E w \in Workers, outcome \in {"none", "closed", "permanent", "other"} :
       /\ outcome = "none" => browserInstance
       /\ WorkerNavigate(w, outcome, NoHeader, defaultBackoffMin)
  \/ Alive /\ \E w \in Workers : WorkerDiscover(w, <<>>)
  \/ Alive /\ \E w \in Workers : WorkerArchive(w, <<>>)
  \/ Alive /\ \E w \in Workers : \E f \in DOMAIN wsave[w] : FsWrite(w, f, FALSE)
  \/ Alive /\ \E w \in Workers : \E f \in DOMAIN wsave[w] : SaveSettle(w, f)
  \/ Alive /\ \E w \in Workers : WorkerSettle(w, TRUE, defaultBackoffMin)
  \/ Alive /\ \E kind \in {"stall", "complete"} : MonitorTick(kind)
  \/ Alive /\ MainFinally
  \/ Alive /\ MainVideoOnly
  \/ Alive /\ \E c \in Callers, timedOut \in BOOLEAN :
       /\ sdPc[c] = "drain" => activeVideoDownloads >= -MaxUnderflow
       /\ ShutdownResume(c, timedOut)
  \/ Alive /\ \E c \in Callers : ShutdownFinish(c)
  \/ Alive /\ \E v \in Videos : ProcClose(v)
  \/ Alive /\ \E v \in Videos : VideoSettle(v)

\* attemptSingleDownload, lines 1759-1849: the yt-dlp subprocess ends when it
\* ends; no timer is set on it (INTERNAL_CONSTANTS.videoDownloadTimeoutMs is
\* read nowhere), so nothing obliges this step to happen.
SubprocessStep == Alive /\ \E v \in Videos : ProcExit(v)

NextTermination == ProgramStep \/ SubprocessStep

SpecTermination ==
  InitShutdown /\ [][NextTermination]_vars /\ WF_vars(ProgramStep)

\* ------------------------------------------ the background video downloads
\* INTERNAL_CONSTANTS.videoMaxRetries, line 285.
videoMaxRetries == 2

\* spawn(CONFIG.ytDlpPath, args): the subprocesses are numbered in the order
\* they are spawned.
spawn(procs) ==
  CHOOSE p \in Procs : procs[p] = "none" /\ \A q \in Procs : procs[q] = "none" => p <= q

\* getVideoFilePath, line 1609, and attemptSingleDownload, line 1738:
\* path.join(os.tmpdir(), `webclone-cookies-${Date.now()}.txt`), named by the
\* millisecond t.
tempCookiePath(t) == t

\* What yt-dlp reports: the file name or the finished download, 'File name
\* too long' on stderr, or another failure.
ProcOutcomes == {"ok", "tooLong", "error"}

\* The local path yt-dlp names for a video under an output template.
videoPath(url, useId) == [url |-> url, byId |-> useId]

\* The catch handler of the background download without its delete.
forgetVideoNever(map, url) == map

\* crawlPage, line 874: CRAWL_STATE.videoUrlMap.delete(link.url)
forgetVideo(map, url) == [k \in (DOMAIN map) \ {url} |-> map[k]]

\* The fallback test without the error message: every failure falls back.
retriesWithIdAlways(err, useId) == ~useId

\* attemptSingleDownload, line 1857: the title template failed with an
\* oversized file name and the identifier template was not tried yet.
retriesWithId(err, useId) == err = "tooLong" /\ ~useId

\* downloadVideo, line 1677: another attempt follows.
attemptsLeft(attempt) == attempt < videoMaxRetries

\* An iteration of runGetFilename or attemptSingleDownload up to its await of
\* writeFile: the temporary cookie file is named by the clock.
awaitCookie(task, pc, attempt, runs, useId) ==
  [task EXCEPT !.pc = pc, !.attempt = attempt, !.runs = runs, !.useId = useId,
               !.proc = 0, !.cookie = tempCookiePath(now)]

\* crawlPage, lines 857-864: the background task of a video starts and runs
\* to the first await of getVideoFilePath.
startVideo(st, url) ==
  [st EXCEPT !.processedVideos = @ \cup {url},
             !.activeVideoDownloads = @ + 1,
             !.dl[url] = awaitCookie(@, "gvfCookie", 0, 0, FALSE)]

\* crawlPage, line 888: predictRecord(link.url, isNavigable, url)
predictLink(st, url, pageUrl) ==
  [st EXCEPT !.records = predictRecord(st.records, url, looksNavigable(url), pageUrl),
             !.threw = predictThrows(st.records, url)]

\* The Record Store and the queue of r within st.
withCrawlState(st, r) ==
  [st EXCEPT !.queue = r.queue, !.enqueued = r.enqueued, !.records = r.records,
             !.threw = r.threw]

\* crawlPage's loop body (lines 852-889) for one link: an unprocessed video
\* starts its background task; any other link is handled as before; a Record
\* is predicted for every link.
crawlLink(st, url, depth, score, pageUrl) ==
  IF isDirectVideoUrl(url)
  THEN IF url \notin st.processedVideos
       THEN predictLink(startVideo(st, url), url, pageUrl)
       ELSE predictLink(st, url, pageUrl)
  ELSE withCrawlState(st, discoverLink([queue |-> st.queue, enqueued |-> st.enqueued,
                                        records |-> st.records, threw |-> st.threw],
                                       url, depth, score, pageUrl))

RECURSIVE crawlLinks(_, _, _, _)
\* crawlPage, lines 852-889: the loop over the de-duplicated links.
crawlLinks(st, links, depth, pageUrl) ==
  IF links = <<>> \/ st.threw THEN st
  ELSE crawlLinks(crawlLink(st, Head(links).url, depth, Head(links).score, pageUrl),
                  Tail(links), depth, pageUrl)

\* crawlPage, lines 891-892: the loop has left st; a page error recorded
\* meanwhile is thrown.
afterLinks(w, st, err) ==
  /\ queue' = st.queue
  /\ enqueued' = st.enqueued
  /\ records' = st.records
  /\ processedVideos' = st.processedVideos
  /\ activeVideoDownloads' = st.activeVideoDownloads
  /\ dl' = st.dl
  /\ werr' = [werr EXCEPT ![w] = err]
  /\ wpc' = [wpc EXCEPT ![w] = IF err = "none" THEN "discovered" ELSE "closing"]

\* The error crawlPage throws after the loop.
loopError(w, st) ==
  IF st.threw THEN "other" ELSE IF pageCrawlError[w] THEN "retryable" ELSE "none"

\* crawlPage, lines 831-892, for a page that links to videos: as
\* WorkerDiscover, and the background task of every unprocessed video starts.
WorkerDiscoverVideos(w, links) ==
  /\ wpc[w] = "loaded"
  /\ LET st == crawlLinks([queue |-> queue, enqueued |-> enqueued, records |-> records,
                           threw |-> FALSE, processedVideos |-> processedVideos,
                           activeVideoDownloads |-> activeVideoDownloads, dl |-> dl],
                          links, wjob[w].depth, wjob[w].url)
     IN afterLinks(w, st, loopError(w, st))
  /\ UNCHANGED <<coolVars, configVars, gvfVars, relVars, evictedFor, nevict, videoUrlMap,
                 tempCookies, rewritten, shuttingDown, browserInstance, monitorOn,
                 activeDownloadProcesses, video, callVars, mainPc, initialHosts,
                 initialBaseDomains, visited, wjob, pageCrawlError, wsave, files, created,
                 pagesCrawled, consecutiveFailures, activeWorkers, navigated, nfail,
                 call, ncalls, popped>>

\* createRelativizer, lines 2296-2305: the links of a page that the rewriting
\* points to the local path of a video.
videoLinks(map, links) ==
  {links[i].url : i \in {j \in 1..Len(links) : Has(map, normalizeUrl(links[j].url))}}

\* crawlPage, lines 896-904, and archivePageAndAssets, lines 922-1009, for a
\* page that links to videos: as WorkerArchive, and the page's HTML is
\* rewritten with the video-URL map of this moment.
WorkerArchiveRewritten(w, captured, links) ==
  /\ wpc[w] = "discovered"
  /\ IF pageCrawlError[w]
     THEN /\ werr' = [werr EXCEPT ![w] = "retryable"]
          /\ wpc' = [wpc EXCEPT ![w] = "closing"]
          /\ UNCHANGED <<records, wsave, rewritten>>
     ELSE LET c == contentToSave(records, wjob[w].url, captured)
          IN /\ records' = c.records
             /\ wsave' = [wsave EXCEPT ![w] = c.content]
             /\ wpc' = [wpc EXCEPT ![w] = "saving"]
             /\ rewritten' = rewritten \cup
                  {[page |-> wjob[w].url, url |-> u, path |-> videoUrlMap[normalizeUrl(u)]] :
                     u \in videoLinks(videoUrlMap, links)}
             /\ UNCHANGED werr
  /\ UNCHANGED <<coolVars, shutVars, configVars, gvfVars, relVars, evictedFor, nevict, dl,
                 videoUrlMap, processedVideos, tempCookies, mainPc, initialHosts,
                 initialBaseDomains, queue, enqueued, visited, wjob, pageCrawlError,
                 files, created, pagesCrawled, consecutiveFailures, activeWorkers, navigated,
                 nfail, call, ncalls, popped>>

\* What the steps of a background task leave alone.
taskFrame ==
  <<coolVars, configVars, gvfVars, relVars, evictedFor, nevict, processedVideos, rewritten,
    workVars, shuttingDown, browserInstance, monitorOn, callVars, mainPc, initialHosts,
    initialBaseDomains, queue, enqueued, visited, records, call, ncalls, popped>>

\* runGetFilename, lines 1610-1614: the cookie file is written and yt-dlp
\* --get-filename is spawned.
FilenameSpawn(u) ==
  /\ dl[u].pc = "gvfCookie"
  /\ \E p \in Procs : video[p] = "none"
  /\ tempCookies' = tempCookies \cup {dl[u].cookie}
  /\ video' = [video EXCEPT ![spawn(video)] = "running"]
  /\ dl' = [dl EXCEPT ![u].pc = "gvfRun", ![u].proc = spawn(video)]
  /\ UNCHANGED <<taskFrame, videoUrlMap, activeVideoDownloads, activeDownloadProcesses>>

\* runGetFilename's 'close' handler, lines 1619-1631, and what follows in
\* getVideoFilePath (lines 1636-1644) and in crawlPage's background task
\* (lines 864-882): the cookie file is unlinked; a file name is registered in
\* the video-URL map and downloadVideo starts its first attempt; an oversized
\* title runs the identifier template; any other failure ends the task.
FilenameClose(u, outcome) ==
  /\ dl[u].pc = "gvfRun"
  /\ video[dl[u].proc] = "exited"
  /\ video' = [video EXCEPT ![dl[u].proc] = "closed"]
  /\ tempCookies' = tempCookies \ {dl[u].cookie}
  /\ CASE outcome = "ok" ->
            /\ videoUrlMap' = Put(videoUrlMap, u, videoPath(u, dl[u].useId))
            /\ dl' = [dl EXCEPT ![u] = awaitCookie(@, "dlCookie", 1, 1, FALSE)]
            /\ UNCHANGED activeVideoDownloads
       [] outcome = "tooLong" /\ ~dl[u].useId ->
            /\ dl' = [dl EXCEPT ![u] = [awaitCookie(@, "gvfCookie", 0, 0, TRUE)
                                         EXCEPT !.lastError = outcome]]
            /\ UNCHANGED <<videoUrlMap, activeVideoDownloads>>
       [] OTHER ->
            /\ dl' = [dl EXCEPT ![u].pc = "noPath", ![u].proc = 0,
                                ![u].lastError = outcome]
            /\ activeVideoDownloads' = activeVideoDownloads - 1
            /\ UNCHANGED videoUrlMap
  /\ nfail' = nfail + (IF outcome = "ok" THEN 0 ELSE 1)
  /\ UNCHANGED <<coolVars, configVars, gvfVars, relVars, evictedFor, nevict, processedVideos,
                 rewritten, wpc, wjob, werr, pageCrawlError, wsave, files, created,
                 pagesCrawled, consecutiveFailures, activeWorkers, navigated, shuttingDown,
                 browserInstance, monitorOn, callVars, mainPc, initialHosts,
                 initialBaseDomains, queue, enqueued, visited, records, call, ncalls,
                 popped, activeDownloadProcesses>>

\* attemptSingleDownload, lines 1739-1762: the cookie file is written, yt-dlp
\* is spawned and added to the live-subprocess set.
DownloadSpawn(u) ==
  /\ dl[u].pc = "dlCookie"
  /\ \E p \in Procs : video[p] = "none"
  /\ tempCookies' = tempCookies \cup {dl[u].cookie}
  /\ video' = [video EXCEPT ![spawn(video)] = "running"]
  /\ activeDownloadProcesses' = activeDownloadProcesses \cup {spawn(video)}
  /\ dl' = [dl EXCEPT ![u].pc = "dlRun", ![u].proc = spawn(video), ![u].spawns = @ + 1]
  /\ UNCHANGED <<taskFrame, videoUrlMap, activeVideoDownloads>>

\* attemptSingleDownload's 'close' handler and catch, lines 1784-1862, and
\* what follows in downloadVideo (lines 1673-1685) and in crawlPage (lines
\* 871-878): cleanup takes the process out of the set and unlinks the cookie
\* file; a finished download goes on to fs.stat; an oversized title starts the
\* iteration with the identifier template; any other failure ends the
\* attempt, and the last attempt's failure unregisters the video and
\* decrements the counter.
DownloadClose(u, outcome) ==
  /\ dl[u].pc = "dlRun"
  /\ video[dl[u].proc] = "exited"
  /\ video' = [video EXCEPT ![dl[u].proc] = "closed"]
  /\ activeDownloadProcesses' = activeDownloadProcesses \ {dl[u].proc}
  /\ tempCookies' = tempCookies \ {dl[u].cookie}
  /\ CASE outcome = "ok" ->
            /\ dl' = [dl EXCEPT ![u].pc = "dlStat", ![u].proc = 0]
            /\ UNCHANGED <<videoUrlMap, activeVideoDownloads>>
       [] outcome # "ok" /\ retriesWithId(outcome, dl[u].useId) /\ dl[u].runs < 2 ->
            /\ dl' = [dl EXCEPT ![u] = [awaitCookie(@, "dlCookie", @.attempt, @.runs + 1, TRUE)
                                         EXCEPT !.lastError = outcome]]
            /\ UNCHANGED <<videoUrlMap, activeVideoDownloads>>
       [] OTHER ->
            IF attemptsLeft(dl[u].attempt)
            THEN /\ dl' = [dl EXCEPT ![u].pc = "sleep", ![u].proc = 0,
                                     ![u].lastError = outcome]
                 /\ UNCHANGED <<videoUrlMap, activeVideoDownloads>>
            ELSE /\ dl' = [dl EXCEPT ![u].pc = "failed", ![u].proc = 0,
                                     ![u].lastError = outcome]
                 /\ videoUrlMap' = forgetVideo(videoUrlMap, u)
                 /\ activeVideoDownloads' = activeVideoDownloads - 1
  /\ nfail' = nfail + (IF outcome = "ok" THEN 0 ELSE 1)
  /\ UNCHANGED <<coolVars, configVars, gvfVars, relVars, evictedFor, nevict, processedVideos,
                 rewritten, wpc, wjob, werr, pageCrawlError, wsave, files, created,
                 pagesCrawled, consecutiveFailures, activeWorkers, navigated, shuttingDown,
                 browserInstance, monitorOn, callVars, mainPc, initialHosts,
                 initialBaseDomains, queue, enqueued, visited, records, call, ncalls,
                 popped>>

\* attemptSingleDownload, lines 1797-1803, downloadVideo, line 1673, and
\* crawlPage, lines 876-878: fs.stat has answered, the download's promise
\* resolves and its finally decrements the counter.
DownloadSettle(u) ==
  /\ dl[u].pc = "dlStat"
  /\ dl' = [dl EXCEPT ![u].pc = "done"]
  /\ activeVideoDownloads' = activeVideoDownloads - 1
  /\ UNCHANGED <<taskFrame, videoUrlMap, tempCookies, video, activeDownloadProcesses>>

\* downloadVideo, lines 1669-1680: the sleep between two attempts is over and
\* the next attempt starts.
DownloadRetry(u) ==
  /\ dl[u].pc = "sleep"
  /\ dl' = [dl EXCEPT ![u] = awaitCookie(@, "dlCookie", @.attempt + 1, 1, FALSE)]
  /\ UNCHANGED <<taskFrame, videoUrlMap, tempCookies, video, activeVideoDownloads,
                 activeDownloadProcesses>>

\* The site: one page links to one video, another one to two.
VideoSite(pageUrl) ==
  IF pageUrl = UrlAX THEN <<Link(VideoClip)>> ELSE <<Link(VideoClip), Link(VideoTalk)>>

InitDownload ==
  /\ InitState
  /\ crawlScope = "cross-domains"
  /\ startUrls = <<UrlAX>>
  /\ maxPages = 1
  /\ maxDepth = 0
  /\ concurrency = 1
  /\ maxConsecutiveFailures = 10

NextDownload ==
  \/ Alive /\ MainPopulateScope
  \/ Alive /\ MainSeed
  \/ Alive /\ MainLaunch
  \/ Alive /\ \E w \in Workers :
       browserInstance /\ WorkerNavigate(w, "none", NoHeader, defaultBackoffMin)
  \/ Alive /\ \E w \in Workers : WorkerDiscoverVideos(w, VideoSite(wjob[w].url))
  \/ Alive /\ \E w \in Workers : WorkerArchiveRewritten(w, <<>>, VideoSite(wjob[w].url))
  \/ Alive /\ \E w \in Workers : \E f \in DOMAIN wsave[w] : FsWrite(w, f, FALSE)
  \/ Alive /\ \E w \in Workers : \E f \in DOMAIN wsave[w] : SaveSettle(w, f)
  \/ Alive /\ \E w \in Workers : WorkerSettle(w, TRUE, defaultBackoffMin)
  \/ Alive /\ SignalHandler("SIGINT")
  \/ Alive /\ MonitorTick("complete")
  \/ Alive /\ MainFinally
  \/ Alive /\ \E c \in Callers, timedOut \in BOOLEAN :
       /\ sdPc[c] = "drain" => activeVideoDownloads >= -MaxUnderflow
       /\ ShutdownResume(c, timedOut)
  \/ Alive /\ \E c \in Callers : ShutdownFinish(c)
  \/ Alive /\ \E p \in Procs : ProcExit(p)
  \/ Alive /\ \E u \in PageVideos : FilenameSpawn(u)
  \/ Alive /\ \E u \in PageVideos, outcome \in ProcOutcomes :
       /\ outcome # "ok" => nfail < MaxDownloadFailures
       /\ FilenameClose(u, outcome)
  \/ Alive /\ \E u \in PageVideos : DownloadSpawn(u)
  \/ Alive /\ \E u \in PageVideos, outcome \in ProcOutcomes :
       /\ outcome # "ok" => nfail < MaxDownloadFailures
       /\ DownloadClose(u, outcome)
  \/ Alive /\ \E u \in PageVideos : DownloadSettle(u)
  \/ Alive /\ \E u \in PageVideos : DownloadRetry(u)

SpecDownload == InitDownload /\ [][NextDownload]_vars

\* ---------------------------------------- the temporary cookie files
\* One page that links to two videos, with session cookies loaded and no
\* --cookies file given, while the clock runs; the page is followed up to the
\* start of the background tasks.
InitCookie ==
  /\ InitState
  /\ crawlScope = "cross-domains"
  /\ startUrls = <<UrlBY>>
  /\ maxPages = 1
  /\ maxDepth = 0
  /\ concurrency = 1
  /\ maxConsecutiveFailures = 10

NextCookie ==
  \/ MainPopulateScope
  \/ MainSeed
  \/ MainLaunch
  \/ now < MaxTicks * 1000 /\ Tick
  \/ \E w \in Workers : WorkerNavigate(w, "none", NoHeader, defaultBackoffMin)
  \/ \E w \in Workers : WorkerDiscoverVideos(w, VideoSite(wjob[w].url))
  \/ \E p \in Procs : ProcExit(p)
  \/ \E u \in PageVideos : FilenameSpawn(u)
  \/ \E u \in PageVideos, outcome \in ProcOutcomes :
       /\ outcome # "ok" => nfail < MaxFailures
       /\ FilenameClose(u, outcome)
  \/ \E u \in PageVideos : DownloadSpawn(u)
  \/ \E u \in PageVideos, outcome \in ProcOutcomes :
       /\ outcome # "ok" => nfail < MaxFailures
       /\ DownloadClose(u, outcome)
  \/ \E u \in PageVideos : DownloadSettle(u)
  \/ \E u \in PageVideos : DownloadRetry(u)

SpecCookie == InitCookie /\ [][NextCookie]_vars

\* ------------------------------------------ the video path negotiation
\* Everything but the helper functions' own variables.
programVars ==
  <<configVars, coolVars, workVars, shutVars, mainPc, initialHosts,
    initialBaseDomains, queue, enqueued, visited, records, call, ncalls, popped>>

\* The output templates of getVideoFilePath, lines 1637 and 1641.
TitleTemplate == "%(title)s.%(ext)s"
IdTemplate == "%(id)s.%(ext)s"

\* What one yt-dlp --get-filename process does: spawn fails ('error' event),
\* or it closes with an exit code, its stderr naming an oversized file or not.
RunOutcomes == [spawnError : BOOLEAN, code : {0, 1}, tooLong : BOOLEAN]

\* runGetFilename(outputTemplate), lines 1584-1633: how its promise settles
\* when the process does o: the filename printed for the template, or an error.
runGetFilename(outputTemplate, o) ==
  IF o.spawnError THEN [ok |-> FALSE, value |-> "spawn ENOENT"]
  ELSE IF o.code = 0
       THEN [ok |-> TRUE,
             value |-> IF outputTemplate = TitleTemplate THEN "Title.mp4" ELSE "id.mp4"]
  ELSE IF o.tooLong THEN [ok |-> FALSE, value |-> "FILE_NAME_TOO_LONG"]
  ELSE [ok |-> FALSE, value |-> "yt-dlp --get-filename failed"]

\* getVideoFilePath's catch with the fallback left out.
fallsBackToIdNever(errMessage) == FALSE

\* getVideoFilePath, line 1639: the error the fallback is taken for.
fallsBackToId(errMessage) == errMessage = "FILE_NAME_TOO_LONG"

\* getVideoFilePath(videoUrl, ...), lines 1579 and 1636-1637, to its first
\* await: runGetFilename with the title template.
GetVideoFilePathCall(script) ==
  /\ gvfPc = "idle"
  /\ gvfScript' = script
  /\ gvfPc' = TitleTemplate
  /\ gvfRuns' = <<TitleTemplate>>
  /\ UNCHANGED <<gvfResult, relArgs, relOut, evictedFor, nevict, downloadVars, programVars>>

\* getVideoFilePath, lines 1636-1644: the awaited runGetFilename has settled.
\* A title run that failed on an oversized filename starts the run with the
\* id template; every other outcome is returned or thrown as it is.
GetVideoFilePathSettle ==
  /\ gvfPc \in {TitleTemplate, IdTemplate}
  /\ LET r == runGetFilename(gvfPc, gvfScript[gvfPc])
     IN IF r.ok
        THEN gvfPc' = "resolved" /\ gvfResult' = r.value /\ UNCHANGED gvfRuns
        ELSE IF gvfPc = TitleTemplate /\ fallsBackToId(r.value)
        THEN /\ gvfPc' = IdTemplate
             /\ gvfRuns' = Append(gvfRuns, IdTemplate)
             /\ UNCHANGED gvfResult
        ELSE gvfPc' = "rejected" /\ gvfResult' = r.value /\ UNCHANGED gvfRuns
  /\ UNCHANGED <<gvfScript, relArgs, relOut, evictedFor, nevict, downloadVars, programVars>>

InitVideoPath ==
  /\ InitState
  /\ crawlScope = "cross-domains"
  /\ maxPages = 1
  /\ maxDepth = 1
  /\ startUrls = <<UrlAX>>
  /\ concurrency = 1
  /\ maxConsecutiveFailures = 10

NextVideoPath ==
  \/ \E script \in [{TitleTemplate, IdTemplate} -> RunOutcomes] :
       GetVideoFilePathCall(script)
  \/ GetVideoFilePathSettle

SpecVideoPath == InitVideoPath /\ [][NextVideoPath]_vars

\* ------------------------------------------------------ the relativizer
\* URL.hostname as one path segment.
HostDir(h) ==
  CASE h = HostA -> "a.example.com"
    [] h = HostB -> "b.a.example.com"
    [] h = HostE -> "example.com"
    [] h = HostO -> "other.org"
    [] OTHER -> "youtu.be"

\* A file path as its segments below the working directory, CONFIG.outDir
\* being "archive".
FlatPath(filePath) == <<"archive", HostDir(filePath.host)>> \o filePath.segs

\* path.dirname with the file itself taken for its directory.
dirnameOfDirectory(p) == p

\* path.dirname(p).
dirname(p) == SubSeq(p, 1, Len(p) - 1)

RECURSIVE commonPrefix(_, _)
\* The number of leading segments two paths share.
commonPrefix(a, b) ==
  IF a = <<>> \/ b = <<>> \/ Head(a) # Head(b) THEN 0
  ELSE 1 + commonPrefix(Tail(a), Tail(b))

\* path.relative(from, to) on resolved paths: one ".." for every segment of
\* `from` below the shared prefix, then the rest of `to`.
pathRelative(from, to) ==
  LET n == commonPrefix(from, to)
  IN [i \in 1..(Len(from) - n) |-> ".."] \o SubSeq(to, n + 1, Len(to))

\* relativePath.startsWith("./") || relativePath.startsWith("../"), on the
\* segments of the path.
startsRelative(rel) == Len(rel) >= 2 /\ rel[1] \in {".", ".."}

\* createRelativizer(sourcePath)(targetUrl), lines 2290-2330, with an empty
\* videoUrlMap and a target that is no data: URL: the URL itself when it has
\* no Record, else the path from the source's directory to the Record's file
\* ("./" is the segments ".", "").
relativizer(sourcePath, targetUrl, recs) ==
  LET normalizedUrl == normalizeUrl(targetUrl)
  IN IF normalizedUrl = EmptyUrl \/ ~Has(recs, normalizedUrl)
     THEN [kind |-> "url", url |-> targetUrl, segs |-> <<>>]
     ELSE LET relativePath ==
                pathRelative(dirname(sourcePath), FlatPath(recs[normalizedUrl].filePath))
          IN [kind |-> "path", url |-> EmptyUrl,
              segs |-> IF relativePath = <<>> THEN <<".", "">>
                       ELSE IF startsRelative(relativePath) THEN relativePath
                       ELSE <<".">> \o relativePath]

\* One call of the relativizer of the file at sourcePath.
Relativize(sourcePath, targetUrl) ==
  /\ relArgs' = [source |-> sourcePath, target |-> targetUrl,
                 toFile |-> IF Has(records, normalizeUrl(targetUrl))
                            THEN FlatPath(records[normalizeUrl(targetUrl)].filePath)
                            ELSE <<>>]
  /\ relOut' = relativizer(sourcePath, targetUrl, records)
  /\ UNCHANGED <<gvfVars, evictedFor, nevict, downloadVars, programVars>>

\* The pages and the asset of the site example.com, and a page of another host.
UrlERoot == Url("https:", HostE, <<"">>)
UrlEPost == Url("https:", HostE, <<"blog", "post">>)
UrlECss == Url("https:", HostE, <<"css", "style.css">>)

\* The files that hold references: the pages, and the stylesheet.
SourcePaths ==
  {FlatPath(urlToFilePath(u, TRUE)) : u \in {UrlERoot, UrlEPost, UrlAX}}
    \cup {FlatPath(urlToFilePath(UrlECss, FALSE))}

\* The URLs referenced: the stylesheet (also with a fragment) and the pages.
TargetUrls == {UrlECss, [UrlECss EXCEPT !.hash = TRUE], UrlERoot, UrlEPost, UrlAX}

InitRelativize ==
  /\ InitState
  /\ crawlScope = "cross-domains"
  /\ maxPages = 1
  /\ maxDepth = 1
  /\ startUrls = <<UrlERoot>>
  /\ concurrency = 1
  /\ maxConsecutiveFailures = 10

NextRelativize ==
  \/ /\ ncalls < MaxRelCalls
     /\ \E u \in TargetUrls \ {UrlAX}, g \in BOOLEAN : PredictCall(u, g, UrlERoot)
  \/ /\ ncalls < MaxRelCalls
     /\ \E u \in {UrlECss, UrlEPost}, a \in FinalizeArgs :
          FinalizeCall(u, urlToFilePath(u, a[3]), a[1], a[2], a[3], UrlERoot)
  \/ \E sourcePath \in SourcePaths, targetUrl \in TargetUrls :
       Relativize(sourcePath, targetUrl)

SpecRelativize == InitRelativize /\ [][NextRelativize]_vars

\* ------------------------------------------------------ claims: enqueue
JobsFor(u) == {i \in 1..Len(queue) : queue[i].url = u}

\* C1 (as claimed): after any sequence of enqueue calls, every well-formed
\* canonical URL that was enqueued has exactly one job in the queue and exactly
\* one Record, a predicted one, in the Record Store.
C1_IdempotentEnqueue ==
  \A u \in enqueued :
    u.parses =>
      /\ Cardinality(JobsFor(u)) = 1
      /\ Has(records, u)
      /\ records[u].predicted

\* C9 (as claimed, for a discovered link): with start URL https://a.example.com/x
\* a link rejected by the scope policy gets no job, no enqueued-set entry and
\* no Record in the page's discovery step.
C9_RejectedLinkNoRecord ==
  [][(call'.op = "discover" /\ crawlScope # "cross-domains"
      /\ ~inScope(normalizeUrl(call'.url)))
     => UNCHANGED <<queue, enqueued, records>>]_vars

\* The acceptance rule of the claim, stated for the start URL https://a.example.com/x.
C9_Allowed(n) ==
  CASE crawlScope = "same-domain" -> n.parses /\ n.host = <<"a", "example", "com">>
    [] crawlScope = "subdomains" ->
         n.parses /\ Len(n.host) >= 2
         /\ n.host[Len(n.host) - 1] = "example" /\ n.host[Len(n.host)] = "com"
    [] OTHER -> n.parses

\* C9 (amended): with start URL https://a.example.com/x, an enqueue call for a
\* URL not seen before adds its job exactly when the scope policy allows the
\* hostname (same-domain: the exact initial hostname; subdomains: the same last
\* two labels; cross-domains: every well-formed URL), and a rejected call
\* leaves the queue, the enqueued set and the Record Store as they were.
C9_ScopeEnforcement ==
  [][(call'.op = "enqueue" /\ initialHosts = {HostA})
     => LET n == normalizeUrl(call'.url)
        IN (n # EmptyUrl /\ n \notin enqueued /\ n \notin visited)
           => /\ C9_Allowed(n)
                 => /\ n \in enqueued'
                    /\ \E i \in 1..Len(queue') : queue'[i].url = n
                    /\ Len(queue') = Len(queue) + 1
              /\ (~C9_Allowed(n) /\ (n.parses \/ crawlScope # "cross-domains"))
                 => UNCHANGED <<queue, enqueued, records>>]_vars

\* C9 witness: under same-domain the link https://b.a.example.com/y was handed
\* to enqueue and left no trace.
C9_Witness ==
  /\ crawlScope = "same-domain"
  /\ initialHosts = {HostA}
  /\ call.op = "enqueue"
  /\ normalizeUrl(call.url) = UrlBY
  /\ UrlBY \notin enqueued
  /\ ~Has(records, UrlBY)
  /\ JobsFor(UrlBY) = {}

\* -------------------------------------------------- claims: queue order
\* C6: jobs inserted through enqueue in arbitrary order (the start URL with
\* score Infinity) come out of repeated pop() calls, with no insertion in
\* between, in non-increasing score order and, among equal scores, in
\* non-decreasing depth order.
C6_QueueOrdering ==
  \A i, j \in 1..Len(popped) :
    i < j =>
      /\ popped[i].score >= popped[j].score
      /\ popped[i].score = popped[j].score => popped[i].depth <= popped[j].depth

\* C6 witness: four pops in a row emptied the queue: the start URL first, then
\* two jobs of one score at different depths, then a job of a lower score.
C6_Witness ==
  /\ Len(popped) = 4
  /\ queue = <<>>
  /\ popped[1].score = Infinity
  /\ popped[2].score = popped[3].score
  /\ popped[2].depth < popped[3].depth
  /\ popped[4].score < popped[3].score

\* ----------------------------------------------------- claims: cooldown
SetMax(S) == CHOOSE m \in S : \A x \in S : x <= m

\* C5: after any sequence of activateRateLimitCoolDown calls (default backoff,
\* zero, negative and positive Retry-After seconds, past and future dates) the
\* global deadline is the maximum of 0 and of every deadline proposed so far.
C5_CooldownMonotonicity == coolDownUntil = SetMax(proposed \cup {0})

\* C5 witness: three different deadlines were proposed, the last call proposed
\* one that is not the latest, and the deadline stayed at the latest.
C5_Witness ==
  /\ Cardinality(proposed) = 3
  /\ call.op = "cooldown"
  /\ now \in proposed
  /\ coolDownUntil > now
  /\ coolDownUntil = SetMax(proposed)

\* ------------------------------------------------------- claims: workers
\* The workers that hold a job (between the pop and the end of its handling).
Busy == {w \in Workers : wpc[w] \in {"delay", "loaded", "discovered", "saving", "closing"}}

\* C3: every success adds a URL that was not visited before (pagesCrawled
\* counts the successes, visited holds their URLs), no worker works on a
\* visited URL and no two workers work on the same URL, whatever failed, was
\* retried or was discovered again.
C3_VisitedAtMostOnce ==
  /\ pagesCrawled = Cardinality(visited)
  /\ \A w \in Busy : wjob[w].url \notin visited
  /\ \A w1, w2 \in Busy : w1 # w2 => wjob[w1].url # wjob[w2].url

\* C3 witness: both start pages are visited after one of them failed and was
\* retried, and the page both link to was discovered twice and is queued once.
C3_Witness ==
  /\ visited = {UrlAX, UrlBY}
  /\ pagesCrawled = 2
  /\ nfail = 1
  /\ {j.url : j \in navigated} = {UrlAX, UrlBY}
  /\ Cardinality({i \in 1..Len(queue) : queue[i].url = UrlEZ}) = 1

\* C7: the number of pages crawled never exceeds max-pages.
C7_PageBudget == Cardinality(visited) <= maxPages /\ pagesCrawled <= maxPages

\* C8: no job deeper than max-depth is navigated or held by a worker, every
\* visited URL was navigated, and with max-depth 0 only start URLs are.
C8_DepthLimit ==
  /\ \A j \in navigated : j.depth <= maxDepth
  /\ \A w \in Busy : wjob[w].depth <= maxDepth
  /\ visited \subseteq {j.url : j \in navigated}
  /\ maxDepth = 0 =>
       \A j \in navigated :
         j.url \in {normalizeUrl(startUrls[i]) : i \in 1..Len(startUrls)}

\* C8 witness: with max-depth 0 a link found on a start page was enqueued at
\* depth 1, then popped and dropped: it is not queued, not navigated, not held.
C8_Witness ==
  /\ maxDepth = 0
  /\ pagesCrawled >= 1
  /\ UrlEZ \in enqueued
  /\ \A i \in 1..Len(queue) : queue[i].url # UrlEZ
  /\ \A j \in navigated : j.url # UrlEZ
  /\ \A w \in Workers : wjob[w].url # UrlEZ

\* ------------------------------------------------- claims: Record Store
\* C2: a finalized Record stays in the store and never changes, whichever
\* predictRecord or finalizeRecord call comes later and with whatever arguments.
C2_FinalizationMonotonicity ==
  [][\A k \in DOMAIN records :
       ~records[k].predicted => k \in DOMAIN records' /\ records'[k] = records[k]]_vars

\* C2 witness: the last call was a finalizeRecord for an already finalized
\* Record, with another path, content type, status and isPage than it holds.
C2_Witness ==
  /\ call.op = "finalize"
  /\ ncalls >= 2
  /\ call.url \in DOMAIN records
  /\ ~records[call.url].predicted
  /\ records[call.url].filePath # call.args[1]
  /\ records[call.url].contentType # call.args[2]
  /\ records[call.url].status # call.args[3]
  /\ records[call.url].isPage # call.args[4]

\* C4: a path is created by at most one exclusive write; a writer that got
\* EEXIST found the file exactly one write created; each writer, creator or
\* not, finalizes the Record at that path, and its page job carries no error.
C4_ConcurrentAssetWrite ==
  /\ \A f \in files : CopiesIn(f, created) = 1
  /\ \A w \in Workers : \A f \in DOMAIN wsave[w] :
       /\ wsave[w][f].result = "eexist" => CopiesIn(f, created) = 1
       /\ wsave[w][f].settled /\ wsave[w][f].result \in {"wrote", "eexist"} =>
            /\ Has(records, wsave[w][f].url)
            /\ ~records[wsave[w][f].url].predicted
            /\ records[wsave[w][f].url].filePath = f
  /\ \A w \in Workers : wpc[w] = "closing" /\ wsave[w] # << >> => werr[w] = "none"

\* C4 witness: two page jobs saved the stylesheet at the same path; one write
\* created the file, the other got EEXIST, both saves have settled and both
\* jobs are about to end without an error.
C4_Witness ==
  \E w1, w2 \in Workers :
    LET f == urlToFilePath(UrlStyle, FALSE)
    IN /\ w1 # w2
       /\ wpc[w1] = "closing" /\ wpc[w2] = "closing"
       /\ werr[w1] = "none" /\ werr[w2] = "none"
       /\ f \in DOMAIN wsave[w1] /\ f \in DOMAIN wsave[w2]
       /\ wsave[w1][f].result = "wrote" /\ wsave[w1][f].settled
       /\ wsave[w2][f].result = "eexist" /\ wsave[w2][f].settled
       /\ ~records[UrlStyle].predicted

\* ------------------------------------------------------ claims: shutdown
\* C10: however many callers invoke performShutdown and in whatever order,
\* only the first caller executes the shutdown sequence: it alone passes the
\* guard, every other caller has returned at the guard, no download process
\* is sent SIGTERM or SIGKILL twice, the browser is released and the
\* statistics are logged at most once, and process.exit is called by no
\* caller but the first.
C10_ShutdownOnce ==
  /\ Cardinality(executors) <= 1
  /\ firstCaller # "none" => executors = {firstCaller}
  /\ \A c \in Callers \ {firstCaller} : sdPc[c] \in {"idle", "skipped"}
  /\ \A v \in Videos : termCount[v] <= 1 /\ killCount[v] <= 1
  /\ browserReleases <= 1
  /\ statsEmitted <= 1
  /\ exitedBy \in {"none", firstCaller}

\* Three callers have called: the first one has killed a download, released
\* the browser and logged the statistics, the two later ones have returned.
C10_Witness ==
  /\ Cardinality({c \in Callers : sdPc[c] = "skipped"}) >= 2
  /\ firstCaller # "none" /\ sdPc[firstCaller] = "flush"
  /\ \E v \in Videos : termCount[v] = 1 /\ killCount[v] = 1
  /\ browserReleases = 1
  /\ statsEmitted = 1

\* ----------------------------------------------------- claims: exit code
\* The exit code the process ends with: the argument of process.exit, or 0
\* once a shutdown sequence called with exit code 0 has returned.
processExitCode ==
  IF exitStatus # Running THEN exitStatus
  ELSE IF \E c \in Callers : sdPc[c] = "returned" THEN 0
  ELSE Running

\* The run met an unrecoverable failure: a worker gave up on a lost browser
\* connection or at the consecutive-failure ceiling, or the shutdown was
\* started by a signal, an unhandled rejection or a timeout of the monitor.
RuntimeFailure ==
  \/ \E w \in Workers : wpc[w] = "returned"
  \/ firstCaller \in {"SIGINT", "SIGTERM", "rejection"}
  \/ firstCaller = "monitor" /\ sdCode["monitor"] = 1

\* C11: the process ends with exit code 1 when the run met an unrecoverable
\* runtime failure, and with exit code 0 when the crawl completed normally.
C11_ExitCode ==
  processExitCode # Running =>
    processExitCode = (IF RuntimeFailure THEN 1 ELSE 0)

\* ------------------------------------------------ claims: malformed input
\* A string new URL() parses as an absolute HTTP(S) URL.
WellFormed(u) == u.parses /\ u.protocol \in {"http:", "https:"}

\* C12: under every crawl-scope policy, a URL string that cannot be parsed
\* as an absolute HTTP(S) URL has no job in the queue, no entry in the
\* enqueued set and no Record.
C12_MalformedNeverEnqueued ==
  /\ \A i \in 1..Len(queue) : WellFormed(queue[i].url)
  /\ \A u \in enqueued : WellFormed(u)
  /\ \A u \in DOMAIN records : WellFormed(u)

\* ------------------------------------------------------- claims: videos
\* The URL string the v-th download was started for.
downloadOf(v) == videoStarts(startUrls, {})[v]

\* The downloads started so far.
Started == {v \in Videos : video[v] # "none"}

\* C13: for each canonical video URL at most one download is started in the
\* whole run: two downloads are never for URL strings that normalize to the
\* same URL.
C13_OneDownloadPerVideo ==
  \A v1 \in Started, v2 \in Started :
    normalizeUrl(downloadOf(v1)) = normalizeUrl(downloadOf(v2)) => v1 = v2

\* ---------------------------------------------- claims: honoring cooldown
\* C14: while the current time is before the global cooldown deadline, no
\* worker starts a page navigation: a worker leaves its politeness delay for
\* the navigation only once the deadline has passed.
C14_WorkersHonorCooldown ==
  [][\A w \in Workers :
       (wpc[w] = "delay" /\ wpc'[w] # "delay") => now >= coolDownUntil]_vars

\* ------------------------------------------ claims: the failure ceiling
\* C15: when the shared consecutive-failure counter reaches
\* max-consecutive-failures, whatever kind of page failure brought it there,
\* the shutdown flag is set and no worker takes a job any more: no step
\* leaves the counter at the ceiling with the flag unset or with a worker
\* that has just popped a job.
C15_CeilingStopsCrawl ==
  [][consecutiveFailures' >= maxConsecutiveFailures =>
       /\ shuttingDown'
       /\ \A w \in Workers : wpc'[w] = "delay" => wpc[w] = "delay"]_vars

\* ------------------------------------------------ claims: video fallback
\* The title run failed because the filename would be too long.
TitleTooLong ==
  /\ gvfPc # "idle"
  /\ runGetFilename(TitleTemplate, gvfScript[TitleTemplate]).value = "FILE_NAME_TOO_LONG"

\* C16: if the title-based negotiation fails on an oversized filename,
\* getVideoFilePath runs the negotiation exactly once more, with the
\* id-based template, and ends with that run's result (its filename, or its
\* own error); the title run's error is not thrown to the caller.
C16_VideoFallback ==
  TitleTooLong =>
    /\ gvfPc # TitleTemplate => gvfRuns = <<TitleTemplate, IdTemplate>>
    /\ gvfPc \in {"resolved", "rejected"} =>
         LET r == runGetFilename(IdTemplate, gvfScript[IdTemplate])
         IN /\ gvfResult = r.value
            /\ gvfPc = (IF r.ok THEN "resolved" ELSE "rejected")

\* The title run failed on an oversized filename and the call returned the
\* filename of the id-based run.
C16_Witness ==
  /\ TitleTooLong
  /\ gvfPc = "resolved"
  /\ gvfRuns = <<TitleTemplate, IdTemplate>>
  /\ gvfResult = "id.mp4"

\* --------------------------------------------- claims: relative rewriting
RECURSIVE resolveFrom(_, _)
\* The file a relative reference leads to from a directory.
resolveFrom(dir, rel) ==
  IF rel = <<>> THEN dir
  ELSE IF Head(rel) \in {".", ""} THEN resolveFrom(dir, Tail(rel))
  ELSE IF Head(rel) = ".." THEN resolveFrom(SubSeq(dir, 1, Len(dir) - 1), Tail(rel))
  ELSE resolveFrom(Append(dir, Head(rel)), Tail(rel))

\* C17: for a target with a Record (predicted or finalized) the relativizer
\* returns the path from the referencing file's directory to the Record's
\* file, starting with ./ or ../: from archive/example.com/index.html to
\* archive/example.com/css/style.css it is ./css/style.css, and from
\* archive/example.com/blog/post/index.html it is ../../css/style.css.
C17_RelativeRewriting ==
  (relOut # << >> /\ relArgs.toFile # <<>>) =>
    /\ relOut.kind = "path"
    /\ relOut.segs[1] \in {".", ".."} /\ Len(relOut.segs) >= 2
    /\ resolveFrom(SubSeq(relArgs.source, 1, Len(relArgs.source) - 1), relOut.segs)
         = relArgs.toFile
    /\ relArgs.toFile = <<"archive", "example.com", "css", "style.css">> =>
         /\ relArgs.source = <<"archive", "example.com", "index.html">> =>
              relOut.segs = <<".", "css", "style.css">>
         /\ relArgs.source = <<"archive", "example.com", "blog", "post", "index.html">> =>
              relOut.segs = <<"..", "..", "css", "style.css">>

\* The page two directories down has referenced the stylesheet, finalized in
\* the Record Store, and got ../../css/style.css.
C17_Witness ==
  /\ relOut # << >>
  /\ relArgs.source = <<"archive", "example.com", "blog", "post", "index.html">>
  /\ relArgs.toFile = <<"archive", "example.com", "css", "style.css">>
  /\ Has(records, UrlECss) /\ ~records[UrlECss].predicted
  /\ relOut.segs = <<"..", "..", "css", "style.css">>


\* ------------------------------------------- claims: queue order invariant
\* C18: in every reachable state, after any interleaving of enqueue, pop and
\* the worker's retry re-queue, every job of the queue carries its priority
\* score and the queue is sorted by ascending score and, within equal score,
\* by descending depth.
C18_QueueSorted ==
  /\ \A i \in 1..Len(queue) : queue[i].score # Undefined
  /\ \A i, j \in 1..Len(queue) :
       i < j =>
         /\ queue[i].score <= queue[j].score
         /\ queue[i].score = queue[j].score => queue[i].depth >= queue[j].depth


\* ------------------------------------------- claims: depth limit at enqueue
\* C19: a call of enqueue at a depth above the configured maximum crawl
\* depth, made directly or by crawlPage for a discovered link, adds no job to
\* the queue and no entry to the enqueued set, and enqueue itself predicts no
\* Record.
C19_DepthDropAtEnqueue ==
  [][(ncalls' # ncalls /\ call'.op \in {"enqueue", "discover"}
        /\ call'.depth > maxDepth)
       => /\ queue' = queue
          /\ enqueued' = enqueued
          /\ call'.op = "enqueue" => records' = records]_vars


\* ------------------------------------------- claims: retryable responses
\* C20: a page job during which the response listener saw a retryable status
\* (pageCrawlError is set for its worker) ends in failure: when the job
\* ends, its URL is not marked visited and no page is counted as crawled.
C20_RetryableFailsPage ==
  [][\A w \in Workers :
       (pageCrawlError[w] /\ wpc[w] = "closing" /\ wpc'[w] # "closing")
         => /\ visited' = visited
            /\ pagesCrawled' = pagesCrawled]_vars


\* ------------------------------------------- claims: no partial archive
\* Some Record of the store is finalized.
SomeFinalized == \E u \in DOMAIN records : ~records[u].predicted

\* C21: a page attempt that ends in failure has written no file of that
\* page and has finalized no Record. The run has one page, so every file of
\* the archive and every Record is that page's: whenever an attempt of the
\* page is about to end with an error and no earlier attempt succeeded, the
\* archive is empty and no Record is finalized.
C21_NoPartialArchive ==
  \A w \in Workers :
    (wpc[w] = "closing" /\ werr[w] # "none" /\ visited = {})
      => files = {} /\ ~SomeFinalized


\* ------------------------------------------- claims: assets before the page
\* C22: within one page job, the page's HTML file is written only after
\* every asset file of that page has been written or found existing and its
\* Record finalized: while a page job is saving, if the write of the page
\* file has been carried out then every other save of the job has settled
\* with its file on disk.
C22_AssetsBeforePage ==
  \A w \in Workers : \A f \in DOMAIN wsave[w] :
    (wsave[w][f].isPage /\ wsave[w][f].result = "wrote")
      => \A g \in DOMAIN wsave[w] \ {f} :
           /\ wsave[w][g].settled
           /\ wsave[w][g].result \in {"wrote", "eexist"}


\* ------------------------------------------- claims: no new work after shutdown
\* C23 as stated: once the shutdown flag is set, no worker pops a job and no
\* worker starts crawling a page.
C23_NoCrawlAfterShutdown ==
  [][shuttingDown =>
       \A w \in Workers : /\ wpc'[w] = "delay" => wpc[w] = "delay"
                          /\ wpc[w] = "delay" => wpc'[w] = "delay"]_vars

\* C23, amended: once the shutdown flag is set, no worker pops a job from
\* the queue (the queue never loses a job and no worker comes to hold a new
\* one), and a worker whose job ends or whose idle sleep is over leaves its
\* loop. A job popped before the flag was set is still crawled.
C23_NoNewWorkAfterShutdown ==
  [][shuttingDown =>
       /\ Len(queue') >= Len(queue)
       /\ \A w \in Workers :
            /\ wpc'[w] = "delay" => wpc[w] = "delay" /\ wjob'[w] = wjob[w]
            /\ (wpc[w] \in {"closing", "sleep"} /\ wpc'[w] # wpc[w])
                 => wpc'[w] \in {"finished", "returned"}]_vars

\* C23 witness: the flag is set, a page was crawled, and a worker has left
\* its loop while a job is still in the queue.
C23_Witness ==
  /\ shuttingDown
  /\ navigated # {}
  /\ queue # <<>>
  /\ \E w \in Workers : wpc[w] = "finished"


\* ------------------------------------------- claims: monitor completion
\* The monitor starts the shutdown with exit code 0 in this step.
MonitorDeclaresComplete ==
  /\ firstCaller = "none"
  /\ firstCaller' = "monitor"
  /\ sdCode'["monitor"] = 0

\* C24: the monitor declares the crawl complete only in a state where the
\* queue is empty, no worker holds a job (none is waiting to navigate, in a
\* page job, or about to book or re-queue one) and no video download is
\* running or unsettled, the counter of active downloads being zero.
C24_MonitorCompletion ==
  [][MonitorDeclaresComplete =>
       /\ queue = <<>>
       /\ \A w \in Workers : wpc[w] \in {"off", "sleep", "finished", "returned"}
       /\ activeVideoDownloads = 0
       /\ \A v \in Videos : video[v] \in {"none", "settled"}]_vars

\* C24 witness: the monitor declared completion after a page was crawled and
\* a download had settled.
C24_Witness ==
  /\ firstCaller = "monitor"
  /\ sdCode["monitor"] = 0
  /\ visited # {}
  /\ \E v \in Videos : video[v] = "settled"


\* ------------------------------------------- claims: run termination
\* C25: with no termination signal and the global timeout disabled, every
\* run eventually reaches shutdown.
C25_RunTerminates == <>shuttingDown


\* ------------------------------------------- claims: shutdown terminates
\* C26: the manual count-down of performShutdown ends with the counter of
\* active downloads at zero, whatever downloads settle meanwhile: while a
\* caller is in the count-down the counter is never below zero (from below
\* zero every further decrement leads away from zero and the loop, and with
\* it the shutdown, never ends).
C26_CountDownReachesZero ==
  \A c \in Callers : sdPc[c] = "drain" => activeVideoDownloads >= 0


\* ------------------------------------------- claims: two-phase termination
\* The processes of a caller's processesToKill.
ToKill(c) == {processesToKill[c][i] : i \in 1..Len(processesToKill[c])}

\* The caller has gone past the forced kills of its performShutdown.
PastForce(c) == sdPc[c] \in {"videos", "drain", "flush", "returned"}

\* C27: in an abnormal shutdown every subprocess that is in the tracking set
\* when the shutdown starts is sent SIGTERM, each of them still running after
\* the wait is sent SIGKILL, and none of them is in the tracking set
\* afterwards; in a normal shutdown no subprocess is sent a signal.
C27_TwoPhaseTermination ==
  [][/\ \A c \in Callers :
          (firstCaller = "none" /\ firstCaller' = c /\ sdCode'[c] # 0)
            => {processesToKill'[c][i] : i \in 1..Len(processesToKill'[c])}
                 = activeDownloadProcesses
     /\ \A c \in Callers :
          (firstCaller = c /\ sdCode[c] # 0 /\ ~PastForce(c) /\ PastForce(c)')
            => \A v \in ToKill(c) :
                 /\ termCount'[v] = 1
                 /\ video[v] = "running" => killCount'[v] = 1 /\ video'[v] = "killed"
                 /\ v \notin activeDownloadProcesses'
     /\ (firstCaller' # "none" /\ sdCode'[firstCaller'] = 0)
          => \A v \in Videos : termCount'[v] = 0 /\ killCount'[v] = 0]_vars

\* C27 witness: an abnormal shutdown has gone past its forced kills with two
\* processes tracked at its start; both were sent SIGTERM, one had exited in
\* time and the other was sent SIGKILL.
C27_Witness ==
  \E c \in Callers :
    /\ firstCaller = c /\ sdCode[c] # 0 /\ PastForce(c)
    /\ Len(processesToKill[c]) = 2
    /\ \A v \in ToKill(c) : termCount[v] = 1
    /\ \E v1, v2 \in ToKill(c) : killCount[v1] = 1 /\ killCount[v2] = 0


\* ------------------------------------------- claims: retry ceiling
\* The job of worker w ends in this step with an error that is neither
\* permanent nor fatal.
FailsRetryably(w) ==
  /\ wpc[w] = "closing"
  /\ wpc'[w] # "closing"
  /\ werr[w] \in {"retryable", "timeout", "other"}
  /\ consecutiveFailures + 1 < maxConsecutiveFailures

\* After the step, a job for url with the given retry count is in the queue
\* or was popped again at once.
RequeuedAs(url, depth, retries) ==
  \/ \E i \in 1..Len(queue') :
       /\ queue'[i].url = url /\ queue'[i].depth = depth
       /\ queue'[i].retries = retries
  \/ \E v \in Workers :
       /\ wpc'[v] = "delay" /\ wjob'[v].url = url /\ wjob'[v].depth = depth
       /\ wjob'[v].retries = retries

\* After the step, no job for url is in the queue or held by a worker.
Abandoned(url) ==
  /\ \A i \in 1..Len(queue') : queue'[i].url # url
  /\ \A v \in Workers :
       wpc'[v] \in {"delay", "loaded", "discovered", "saving", "closing"}
         => wjob'[v].url # url

\* C28: a job that fails with an error neither permanent nor fatal is
\* re-queued with its retry count increased by one while the count is below
\* 3 and abandoned otherwise; no job in the queue or held by a worker has a
\* retry count above 3, and there is never more than one job of a URL, so a
\* URL is attempted at most 4 times (attempt k carries the count k - 1).
C28_RetryCeiling ==
  [][/\ \A w \in Workers :
          FailsRetryably(w) =>
            IF wjob[w].retries < 3
            THEN RequeuedAs(wjob[w].url, wjob[w].depth, wjob[w].retries + 1)
            ELSE Abandoned(wjob[w].url)
     /\ \A i \in 1..Len(queue') : queue'[i].retries <= 3
     /\ \A w \in Workers : wjob'[w].retries <= 3
     /\ \A w \in Workers :
          wpc'[w] \in {"delay", "loaded", "discovered", "saving", "closing"} =>
            /\ \A i \in 1..Len(queue') : queue'[i].url # wjob'[w].url
            /\ \A v \in Workers \ {w} :
                 wpc'[v] \in {"delay", "loaded", "discovered", "saving", "closing"}
                   => wjob'[v].url # wjob'[w].url
     /\ \A i, j \in 1..Len(queue') : queue'[i].url = queue'[j].url => i = j]_vars

\* C28 witness: the only page of the run failed four times, the last time
\* with retry count 3, and is gone: no job is left and nothing was visited.
C28_Witness ==
  /\ Len(startUrls) = 1
  /\ nfail = 4
  /\ queue = <<>>
  /\ visited = {}
  /\ \A w \in Workers : wpc[w] \in {"off", "sleep", "finished"}


\* ------------------------------------------- claims: permanent client error
\* No job for url is in the queue or held by a worker.
NoJobFor(url) ==
  /\ \A i \in 1..Len(queue) : queue[i].url # url
  /\ \A v \in Busy : wjob[v].url # url

\* C29: a page job that ends with a permanent client error (401, 403 or 404
\* on the main navigation) is abandoned: it is not re-queued, its URL is not
\* marked visited, and the worker runs on in its loop to the next job (it
\* sleeps only on an empty queue); a URL left without a job and not visited
\* stays so for the rest of the run.
C29_PermanentClientError ==
  [][/\ \A w \in Workers :
          (wpc[w] = "closing" /\ wpc'[w] # "closing" /\ werr[w] = "permanent")
            => /\ Abandoned(wjob[w].url)
               /\ wjob[w].url \notin visited'
               /\ wpc'[w] \in {"delay", "sleep", "finished"}
               /\ wpc'[w] = "sleep" => queue' = <<>>
     /\ \A u \in enqueued :
          (NoJobFor(u) /\ u \notin visited) => (Abandoned(u) /\ u \notin visited')]_vars

\* C29 witness: of three start pages one failed once, with a permanent
\* error, and has no job any more; nothing is visited, and the two workers
\* hold the other two pages: the worker of the failed page took the next job.
C29_Witness ==
  /\ Len(startUrls) = 3
  /\ nfail = 1
  /\ visited = {}
  /\ queue = <<>>
  /\ \E u \in enqueued : NoJobFor(u)
  /\ \E w \in Workers : wpc[w] = "delay" /\ wjob[w].retries = 0


\* ------------------------------------------- claims: consecutive failures
\* The URLs crawlPage was called for.
NavigatedUrls == {j.url : j \in navigated}

\* C30: the consecutive-failure counter counts different pages, repeated
\* failed attempts of one URL raising it by at most one: the counter never
\* exceeds the number of distinct URLs that were attempted at all.
C30_CountsDistinctPages == consecutiveFailures <= Cardinality(NavigatedUrls)


\* C31: once the background download of a video found on a page has failed
\* for good (every attempt of downloadVideo has failed), the video-URL map
\* holds no entry for that video's URL, in this state and in every later one.
C31_FailedDownloadUnregistered ==
  \A u \in PageVideos : dl[u].pc = "failed" => ~Has(videoUrlMap, u)

\* A download has failed for good after its path had been registered and
\* yt-dlp had been spawned for each of its attempts.
C31_Witness ==
  \E u \in PageVideos :
    dl[u].pc = "failed" /\ dl[u].attempt = videoMaxRetries /\ dl[u].spawns >= 2

\* The run is over: performShutdown has called process.exit or has returned.
RunOver == exitStatus # Running \/ \E c \in Callers : sdPc[c] = "returned"

\* C32: at the end of a run no archived page holds a link that was rewritten
\* to the local path of a video whose download failed for good, whatever the
\* order of the page's archiving, the registration of the path and the
\* failure of the download.
C32_NoLinkToFailedVideo ==
  RunOver =>
    \A r \in rewritten :
      r.page \in visited /\ urlToFilePath(r.page, TRUE) \in files => dl[r.url].pc # "failed"

\* The download subprocess a step spawns for the video u.
SpawnsDownload(u) == dl'[u].spawns = dl[u].spawns + 1

Invoking(u) == dl[u].pc \in {"gvfCookie", "gvfRun", "dlCookie", "dlRun"}

\* C34: two yt-dlp invocations that overlap in time never use the same
\* temporary cookie file, so the file of an invocation whose subprocess runs
\* is on disk until that invocation's own cleanup.
C34_UniqueCookieFile ==
  /\ \A u1, u2 \in PageVideos :
       u1 # u2 /\ Invoking(u1) /\ Invoking(u2) => dl[u1].cookie # dl[u2].cookie
  /\ \A u \in PageVideos :
       dl[u].pc \in {"gvfRun", "dlRun"} /\ video[dl[u].proc] = "running"
         => dl[u].cookie \in tempCookies

\* C35: every yt-dlp subprocess that was spawned and has not exited yet, be
\* it a negotiation of the file name or a download, is a member of the
\* live-subprocess set.
C35_LiveSubprocessTracked ==
  \A p \in Procs : video[p] = "running" => p \in activeDownloadProcesses

\* C36: once the shutdown flag is set no yt-dlp subprocess is spawned (a
\* download whose subprocess the shutdown terminated is not retried), and
\* when a shutdown with a non-zero exit code ends the process no subprocess
\* is left running.
C36_NoSpawnDuringShutdown ==
  [][/\ shuttingDown => \A p \in Procs : video'[p] = "running" => video[p] = "running"
     /\ exitStatus' \notin {Running, 0} => \A p \in Procs : video'[p] # "running"]_vars

\* C37: the counter of active video downloads is never negative, also when
\* the shutdown sequence has decremented it by force and a download settles
\* afterwards.
C37_CounterNeverNegative == activeVideoDownloads >= 0

\* C38: whenever a URL is in the visited set, its Record is finalized, marks
\* it as a page and names a file on disk (the one holding the page's
\* rewritten HTML), also when the URL was saved earlier as a sub-resource of
\* another page and also when the write of the page file failed.
C38_VisitedPageFinalized ==
  \A u \in visited :
    /\ Has(records, u)
    /\ ~records[u].predicted
    /\ records[u].isPage
    /\ records[u].filePath \in files

\* C39: two different canonical URLs never have the same local file path in
\* their Records, predicted or finalized, page or asset.
C39_DistinctUrlsDistinctFiles ==
  \A u1, u2 \in DOMAIN records :
    u1 # u2 => records[u1].filePath # records[u2].filePath

\* The URL u was found on a crawled page at a depth within the limit.
FoundWithinDepth(u) ==
  \E j \in navigated :
    /\ j.url \in visited
    /\ j.depth + 1 <= maxDepth
    /\ \E i \in 1..Len(DeepSite(j.url)) : DeepSite(j.url)[i].url = u

\* crawlPage was called for the URL u.
Navigated(u) == \E j \in navigated : j.url = u

\* C40: with the page budget not exhausted and no shutdown, a navigable
\* in-scope URL found on a page at a depth within max-depth is eventually
\* navigated, also when it was found earlier at a depth beyond max-depth.
C40_LinkWithinDepthCrawled ==
  \A u \in {UrlEZ, UrlOW} : FoundWithinDepth(u) ~> Navigated(u)

====
